---------------------------- MODULE Spec2Model ----------------------------
(***************************************************************************)
(* A model of src/main.py: the tile grid of World, the physics of Entity   *)
(* and ControlledCar, per-pixel collision, Camera, and the game loop.      *)
(*                                                                         *)
(* Floats (velocity, true_pos, friction, Camera.pos, smoothing) are IEEE   *)
(* 754 doubles, as Python's float and pg.Vector2 hold them: every sum,     *)
(* product, quotient and square root is rounded to the nearest double,     *)
(* ties to even.  Rect coordinates, sizes, angles and the tile grid are    *)
(* integers as in the code.  Angles are whole degrees; the cosines and     *)
(* sines of the angles that are no quarter turns are the C library's.      *)
(***************************************************************************)
EXTENDS Integers, Sequences, FiniteSets, TLC

VARIABLES
    tile_array,     \* World.tile_array: [COLUMN][ROW], 0 is None
    group_tiles,    \* World.group_tiles: the set of tiles added
    group_objects,  \* World.group_objects: ids of the registered objects
    image,          \* World.image, the composed surface
    ents,           \* the Object and Entity objects, by id
    vec_heap,       \* the pg.Vector2 objects Camera.pos may refer to
    cams,           \* the Camera objects, by id
    tst,            \* game loop: time since tick (ms)
    tick,           \* game loop: whether this frame is tick-bearing
    running,        \* game loop: FALSE once pg.QUIT was handled
    frames,         \* frames run so far
    ticks,          \* tick-bearing frames so far
    elapsed,        \* sum of CLOCK.get_time() over the frames so far (ms)
    last,           \* the last call: [op, args, err, ret]
    steps           \* calls made so far

vars == <<tile_array, group_tiles, group_objects, image, ents, vec_heap, cams,
          tst, tick, running, frames, ticks, elapsed, last, steps>>

worldVars == <<tile_array, group_tiles, group_objects, image>>
camVars == <<vec_heap, cams>>
loopVars == <<tst, tick, running, frames, ticks, elapsed>>

----------------------------------------------------------------------------
(* Bounds of the model *)

\* calls per run of the World and scene specifications
MaxCalls == 3
\* calls per run of the Entity and collision specifications
MaxSteps == 4
\* largest column / row index add_tile is called with
MaxIdx == 2
\* frames per run of the game loop
MaxFrames == 4
\* Camera.update calls per run of the easing specification
MaxUpdates == 325

----------------------------------------------------------------------------
(* Evaluation *)

\* Op(x), with x evaluated once
Once(Op(_), x) == CHOOSE r \in {Op(y) : y \in {x}} : TRUE

----------------------------------------------------------------------------
(* Natural numbers of any size: little-endian sequences of limbs below     *)
(* LimbBase without leading zero limbs; <<>> is 0.  The operations are     *)
(* functions of tuples, so that their operands are evaluated once.         *)

LimbBits == 14
LimbBase == 2 ^ LimbBits
Nats == Seq(0 .. LimbBase - 1)

Limb(a, i) == IF i <= Len(a) THEN a[i] ELSE 0

Zeros(n) == [i \in 1 .. n |-> 0]

\* a without leading zero limbs
NatNormF[a \in Nats] ==
    LET nz == {i \in 1 .. Len(a) : a[i] # 0}
    IN IF nz = {} THEN <<>> ELSE SubSeq(a, 1, CHOOSE i \in nz : \A j \in nz : j <= i)

NatNorm(a) == NatNormF[a]

RECURSIVE NatFromInt(_)
NatFromInt(n) == IF n = 0 THEN <<>> ELSE <<n % LimbBase>> \o NatFromInt(n \div LimbBase)

RECURSIVE NatToInt(_)
NatToInt(a) == IF a = <<>> THEN 0 ELSE a[1] + LimbBase * NatToInt(Tail(a))

NatAddF[p \in Nats \X Nats] ==
    LET a == p[1]
        b == p[2]
        n == IF Len(a) > Len(b) THEN Len(a) ELSE Len(b)
        carry[i \in 0 .. n] ==
            IF i = 0 THEN 0 ELSE (Limb(a, i) + Limb(b, i) + carry[i - 1]) \div LimbBase
    IN [i \in 1 .. n |-> (Limb(a, i) + Limb(b, i) + carry[i - 1]) % LimbBase]
       \o (IF carry[n] = 0 THEN <<>> ELSE <<carry[n]>>)

NatAdd(a, b) == NatAddF[<<a, b>>]

\* a - b for a >= b
NatSubF[p \in Nats \X Nats] ==
    LET a == p[1]
        b == p[2]
        borrow[i \in 0 .. Len(a)] ==
            IF i = 0 THEN 0
            ELSE IF a[i] - Limb(b, i) - borrow[i - 1] < 0 THEN 1 ELSE 0
    IN NatNorm([i \in 1 .. Len(a) |-> (a[i] - Limb(b, i) - borrow[i - 1]) % LimbBase])

NatSub(a, b) == NatSubF[<<a, b>>]

\* -1, 0, 1 as a < b, a = b, a > b
NatCmpF[p \in Nats \X Nats] ==
    LET a == p[1]
        b == p[2]
        d == {i \in 1 .. Len(a) : a[i] # b[i]}
        top == CHOOSE i \in d : \A j \in d : j <= i
    IN IF Len(a) < Len(b) THEN -1
       ELSE IF Len(a) > Len(b) THEN 1
       ELSE IF d = {} THEN 0
       ELSE IF a[top] < b[top] THEN -1 ELSE 1

NatCmp(a, b) == NatCmpF[<<a, b>>]

\* a * k for 0 <= k < LimbBase
NatMulSmallF[p \in Nats \X (0 .. LimbBase - 1)] ==
    LET a == p[1]
        k == p[2]
        carry[i \in 0 .. Len(a)] ==
            IF i = 0 THEN 0 ELSE (a[i] * k + carry[i - 1]) \div LimbBase
    IN IF k = 0 THEN <<>>
       ELSE [i \in 1 .. Len(a) |-> (a[i] * k + carry[i - 1]) % LimbBase]
            \o (IF carry[Len(a)] = 0 THEN <<>> ELSE <<carry[Len(a)]>>)

NatMulSmall(a, k) == NatMulSmallF[<<a, k>>]

NatMulF[p \in Nats \X Nats] ==
    LET a == p[1]
        b == p[2]
        sum[i \in 0 .. Len(b)] ==
            IF i = 0 THEN <<>>
            ELSE IF b[i] = 0 THEN sum[i - 1]
            ELSE NatAdd(sum[i - 1], Zeros(i - 1) \o NatMulSmall(a, b[i]))
    IN IF a = <<>> THEN <<>> ELSE sum[Len(b)]

NatMul(a, b) == NatMulF[<<a, b>>]

\* <<a div k, a mod k>> for 0 < k <= LimbBase
NatDivModSmallF[p \in Nats \X (1 .. LimbBase)] ==
    LET a == p[1]
        k == p[2]
        rem[i \in 1 .. Len(a) + 1] ==
            IF i = Len(a) + 1 THEN 0 ELSE (rem[i + 1] * LimbBase + a[i]) % k
    IN <<NatNorm([i \in 1 .. Len(a) |-> (rem[i + 1] * LimbBase + a[i]) \div k]), rem[1]>>

NatDivSmall(a, k) == NatDivModSmallF[<<a, k>>][1]

RECURSIVE SmallBitLen(_)
SmallBitLen(n) == IF n = 0 THEN 0 ELSE 1 + SmallBitLen(n \div 2)

\* the number of bits of a
NatBitLen(a) == IF a = <<>> THEN 0 ELSE (Len(a) - 1) * LimbBits + SmallBitLen(a[Len(a)])

\* a * 2^k
NatShlF[p \in Nats \X Nat] ==
    IF p[1] = <<>> THEN <<>>
    ELSE Zeros(p[2] \div LimbBits) \o NatMulSmall(p[1], 2 ^ (p[2] % LimbBits))

NatShl(a, k) == NatShlF[<<a, k>>]

\* a div 2^k
NatShrF[p \in Nats \X Nat] ==
    IF p[2] \div LimbBits >= Len(p[1]) THEN <<>>
    ELSE NatDivSmall(SubSeq(p[1], p[2] \div LimbBits + 1, Len(p[1])), 2 ^ (p[2] % LimbBits))

NatShr(a, k) == NatShrF[<<a, k>>]

\* bit i of a (bit 0 is the lowest)
NatBit(a, i) == (Limb(a, i \div LimbBits + 1) \div 2 ^ (i % LimbBits)) % 2

\* whether a mod 2^k is 0
NatLowZero(a, k) ==
    /\ \A i \in 1 .. k \div LimbBits : Limb(a, i) = 0
    /\ Limb(a, k \div LimbBits + 1) % 2 ^ (k % LimbBits) = 0
\* the limb q with q * b <= r < (q + 1) * b and the rest r - q * b, for
\* r < b * LimbBase and the top limb of b at least LimbBase / 2: p is <<r, b,
\* an estimate of q that is not too small>>
QuotRestF[p \in Nats \X Nats \X Nat] ==
    LET t == NatMulSmall(p[2], p[3])
    IN IF NatCmp(t, p[1]) <= 0 THEN <<p[3], NatSub(p[1], t)>>
       ELSE QuotRestF[<<p[1], p[2], p[3] - 1>>]

\* the estimate from the top limbs, which is at most 2 too large
QuotLimbF[p \in Nats \X Nats] ==
    LET est == (Limb(p[1], Len(p[2]) + 1) * LimbBase + Limb(p[1], Len(p[2])))
               \div p[2][Len(p[2])]
    IN QuotRestF[<<p[1], p[2], IF est >= LimbBase THEN LimbBase - 1 ELSE est>>]

\* one step of the long division: st is <<a, b, the number of limbs of a
\* still to take, the quotient limbs found, the rest so far>>, and qr the
\* quotient limb and the rest of this step
NatDivNext[p \in (Nats \X Nats \X Nat \X Nats \X Nats) \X (Nat \X Nats)] ==
    <<p[1][1], p[1][2], p[1][3] - 1, <<p[2][1]>> \o p[1][4], p[2][2]>>

\* long division by b, whose top limb is at least LimbBase / 2: each step
\* brings down the next limb of a
NatDivFrom[st \in Nats \X Nats \X Nat \X Nats \X Nats] ==
    IF st[3] = 0 THEN <<NatNorm(st[4]), st[5] = <<>> >>
    ELSE NatDivFrom[NatDivNext[<<st,
            QuotLimbF[<<NatNorm(<<Limb(st[1], st[3])>> \o st[5]), st[2]>>]>>]]

\* <<a div b, whether b divides a>> for b > 0: a and b are shifted to bring
\* the top limb of b to LimbBase / 2 or more
NatDivF[p \in Nats \X Nats] ==
    LET sh == LimbBits - SmallBitLen(p[2][Len(p[2])])
    IN NatDivFrom[<<NatShl(p[1], sh), NatShl(p[2], sh), Len(NatShl(p[1], sh)),
                    <<>>, <<>> >>]

NatDiv(a, b) == NatDivF[<<a, b>>]

\* floor(sqrt(a)) by Newton's iteration from above: st is <<a, x, the
\* iterate after x>>
NatSqrtFrom[st \in Nats \X Nats \X Nats] ==
    IF NatCmp(st[3], st[2]) >= 0 THEN st[2]
    ELSE NatSqrtFrom[<<st[1], st[3],
                       NatShr(NatAdd(st[3], NatDiv(st[1], st[3])[1]), 1)>>]

\* p is <<a, half the number of bits of a, rounded up>>
NatSqrtF[p \in Nats \X Nat] ==
    IF p[1] = <<>> THEN <<>>
    ELSE NatSqrtFrom[<<p[1], NatShl(<<1>>, p[2] + 1), NatShl(<<1>>, p[2])>>]

NatSqrt(a) == NatSqrtF[<<a, (NatBitLen(a) + 1) \div 2>>]

----------------------------------------------------------------------------
(* Python's float, C's double: (-1)^s * m * 2^e with m = 0 or               *)
(* 2^52 <= m < 2^53; a subnormal number is held the same way, its low bits  *)
(* 0.  The exponent has no upper bound: the model has no overflow, which    *)
(* no value of the program is near.                                         *)

\* the bits of a double's mantissa, the hidden one included
MantBits == 53

Doubles == [s : {0, 1}, m : Nats, e : Int]

D(s, m, e) == [s |-> s, m |-> m, e |-> e]

\* 0.0 and -0.0
FZero(s) == D(s, <<>>, 0)

IsZero(x) == x.m = <<>>

\* the exponent of the smallest positive double, 2^-1074
MinExp == 0 - 1074

\* m * 2^e as a double, for m of n bits, at most MantBits + 1 and then its
\* low bit 0: p is <<s, m, e, n>>
FNormalF[p \in {0, 1} \X Nats \X Int \X Nat] ==
    IF p[2] = <<>> THEN FZero(p[1])
    ELSE IF p[4] > MantBits THEN D(p[1], NatShr(p[2], 1), p[3] + 1)
    ELSE D(p[1], NatShl(p[2], MantBits - p[4]), p[3] - (MantBits - p[4]))

FNormal(s, m, e) == FNormalF[<<s, m, e, NatBitLen(m)>>]

\* the kept bits q of a mantissa as the nearest double, the even one of two:
\* p is <<s, q, e, whether the first bit dropped is 1, whether anything lies
\* below that bit>>
FRoundUpF[p \in {0, 1} \X Nats \X Int \X BOOLEAN \X BOOLEAN] ==
    FNormal(p[1],
            IF p[4] /\ (p[5] \/ Limb(p[2], 1) % 2 = 1) THEN NatAdd(p[2], <<1>>) ELSE p[2],
            p[3])

\* p is <<s, m, e, sticky, k>>: the bits of m below 2^k are dropped
FRoundAtF[p \in {0, 1} \X Nats \X Int \X BOOLEAN \X Int] ==
    IF p[5] <= 0 THEN FRoundUpF[<<p[1], p[2], p[3], FALSE, FALSE>>]
    ELSE FRoundUpF[<<p[1], NatShr(p[2], p[5]), p[3] + p[5],
                     NatBit(p[2], p[5] - 1) = 1,
                     p[4] \/ ~NatLowZero(p[2], p[5] - 1)>>]

\* the larger of two integers
IntMax(a, b) == IF a > b THEN a ELSE b

\* (-1)^s * m * 2^e, and less than one unit of m more if sticky, as the
\* nearest double, the even one of two: p is <<s, m, e, sticky>>.  The bits
\* dropped are those beyond MantBits, and those below 2^MinExp.
FRoundF[p \in {0, 1} \X Nats \X Int \X BOOLEAN] ==
    FRoundAtF[<<p[1], p[2], p[3], p[4],
                IntMax(NatBitLen(p[2]) - MantBits, MinExp - p[3])>>]

FRound(s, m, e, sticky) == FRoundF[<<s, m, e, sticky>>]

\* float(n) of an int n, which is exact
FromInt(n) == FNormal(IF n < 0 THEN 1 ELSE 0, NatFromInt(IF n < 0 THEN -n ELSE n), 0)

\* -x
FNeg(x) == D(1 - x.s, x.m, x.e)

\* abs(x), fabs(x)
FAbs(x) == D(0, x.m, x.e)

\* -1, 0, 1 as x < y, x = y, x > y; 0.0 = -0.0
FCmpF[p \in Doubles \X Doubles] ==
    LET x == p[1]
        y == p[2]
        abs == IF x.e < y.e THEN -1 ELSE IF x.e > y.e THEN 1 ELSE NatCmp(x.m, y.m)
    IN IF IsZero(x) THEN (IF IsZero(y) THEN 0 ELSE IF y.s = 1 THEN 1 ELSE -1)
       ELSE IF IsZero(y) THEN (IF x.s = 1 THEN -1 ELSE 1)
       ELSE IF x.s # y.s THEN (IF x.s = 1 THEN -1 ELSE 1)
       ELSE (IF x.s = 1 THEN -1 ELSE 1) * abs

FCmp(x, y) == FCmpF[<<x, y>>]

FLt(x, y) == FCmp(x, y) < 0
FLe(x, y) == FCmp(x, y) <= 0
FGt(x, y) == FCmp(x, y) > 0
FGe(x, y) == FCmp(x, y) >= 0
FEq(x, y) == FCmp(x, y) = 0

\* -1, 0, 1 as x < 0, x = 0, x > 0
FSgn(x) == IF IsZero(x) THEN 0 ELSE IF x.s = 1 THEN -1 ELSE 1

\* operands farther apart than this in exponent: the smaller one is below a
\* quarter of the last place of the larger, and the sum is the larger
FarApart == MantBits + 7

\* (-1)^sx * mx * 2^e + (-1)^sy * my * 2^e: p is <<sx, sy, mx, my, e>>
FAddAlignedF[p \in {0, 1} \X {0, 1} \X Nats \X Nats \X Int] ==
    LET c == NatCmp(p[3], p[4])
    IN IF p[1] # p[2] /\ c = 0 THEN FZero(0)
       ELSE FRound(IF p[1] = p[2] \/ c > 0 THEN p[1] ELSE p[2],
                   IF p[1] = p[2] THEN NatAdd(p[3], p[4])
                   ELSE IF c > 0 THEN NatSub(p[3], p[4]) ELSE NatSub(p[4], p[3]),
                   p[5], FALSE)

\* x + y
FAddF[p \in Doubles \X Doubles] ==
    LET x == p[1]
        y == p[2]
        e == IF x.e < y.e THEN x.e ELSE y.e
    IN IF IsZero(x)
       THEN (IF IsZero(y) THEN FZero(IF x.s = 1 /\ y.s = 1 THEN 1 ELSE 0) ELSE y)
       ELSE IF IsZero(y) THEN x
       ELSE IF x.e - y.e > FarApart THEN x
       ELSE IF y.e - x.e > FarApart THEN y
       ELSE FAddAlignedF[<<x.s, y.s, NatShl(x.m, x.e - e), NatShl(y.m, y.e - e), e>>]

FAdd(x, y) == FAddF[<<x, y>>]

\* x - y
FSub(x, y) == FAddF[<<x, FNeg(y)>>]

\* x * y
FMulF[p \in Doubles \X Doubles] ==
    IF IsZero(p[1]) \/ IsZero(p[2]) THEN FZero((p[1].s + p[2].s) % 2)
    ELSE FRound((p[1].s + p[2].s) % 2, NatMul(p[1].m, p[2].m), p[1].e + p[2].e, FALSE)

FMul(x, y) == FMulF[<<x, y>>]

\* the bits a quotient or a root is computed to beyond the mantissa
ExtraBits == MantBits + 3

\* (-1)^s * n * 2^e for the quotient n of a division, inexact if qr[2] is not
FRoundQuotF[p \in {0, 1} \X (Nats \X BOOLEAN) \X Int] ==
    FRound(p[1], p[2][1], p[3], ~p[2][2])

\* x / y for y # 0
FDivF[p \in Doubles \X Doubles] ==
    IF IsZero(p[1]) THEN FZero((p[1].s + p[2].s) % 2)
    ELSE FRoundQuotF[<<(p[1].s + p[2].s) % 2,
                       NatDiv(NatShl(p[1].m, ExtraBits), p[2].m),
                       p[1].e - p[2].e - ExtraBits>>]

FDiv(x, y) == FDivF[<<x, y>>]

\* sqrt(m * 2^e) for an even e: st is <<m, e, floor(sqrt(m))>>
FSqrtFrom[st \in Nats \X Int \X Nats] ==
    FRound(0, st[3], st[2] \div 2, NatMul(st[3], st[3]) # st[1])

\* p is <<m, e>>, e even
FSqrtEvenF[p \in Nats \X Int] == FSqrtFrom[<<p[1], p[2], NatSqrt(p[1])>>]

\* sqrt(x) for x >= 0
FSqrtF[x \in Doubles] ==
    IF IsZero(x) THEN x
    ELSE FSqrtEvenF[<<NatShl(x.m, ExtraBits + (x.e % 2)), x.e - ExtraBits - (x.e % 2)>>]

FSqrt(x) == FSqrtF[x]

\* int(x): x rounded toward zero, for |x| < 2^31
FToIntF[x \in Doubles] ==
    IF IsZero(x) THEN 0
    ELSE (IF x.s = 1 THEN -1 ELSE 1)
         * NatToInt(IF x.e >= 0 THEN NatShl(x.m, x.e) ELSE NatShr(x.m, -x.e))

\* int(x) of a float
PyInt(x) == FToIntF[x]

\* p is <<x, int(x), |x - int(x)| compared with a half>>
PyRoundNearF[p \in Doubles \X Int \X Int] ==
    IF p[3] < 0 \/ (p[3] = 0 /\ p[2] % 2 = 0) THEN p[2]
    ELSE IF p[1].s = 1 THEN p[2] - 1 ELSE p[2] + 1

\* p is <<x, int(x)>>
PyRoundFromF[p \in Doubles \X Int] ==
    PyRoundNearF[<<p[1], p[2],
                   FCmp(FMul(FAbs(FSub(p[1], FromInt(p[2]))), FromInt(2)), FromInt(1))>>]

\* round(x) of a float: the nearest integer, the even one of two
PyRoundF[x \in Doubles] == PyRoundFromF[<<x, PyInt(x)>>]

PyRound(x) == PyRoundF[x]

\* the float a decimal literal num / den (den a power of ten) is read as
Dec(num, den) == FDiv(FromInt(num), FromInt(den))

\* max(0, x): 0 unless x is larger
MaxZero(x) == IF FGt(x, FZero(0)) THEN x ELSE FZero(0)

\* max(x, y): x unless y is larger
FMax(x, y) == IF FGt(y, x) THEN y ELSE x

----------------------------------------------------------------------------
(* Program constants *)

TILE_SIZE == 500
TPS == 60

\* 0.00001, the threshold of Entity.brake and Entity.turn
EPSILON == Dec(1, 100000)

\* Entity.friction and .mass, ControlledCar's friction and tuning
EntityFriction == Dec(6, 1000)
EntityMass == 1
CarFriction == Dec(2, 100)
CarAcceleration == Dec(6, 100)
CarBraking == Dec(5, 100)
CarHandling == 4
\* ControlledCar's default scale
CarScale == <<50, 28>>
\* Camera's default smoothing
DefaultSmoothing == Dec(1, 10)

None == "None"

----------------------------------------------------------------------------
(* pg.math.Vector2: a pair of doubles *)

Vecs == Doubles \X Doubles

\* pg.Vector2((x, y)) of ints
Vec(x, y) == <<FromInt(x), FromInt(y)>>

\* pg.math.Vector2(0, 0)
VZero == <<FZero(0), FZero(0)>>

\* both coordinates 0.0 or -0.0
VIsZero(v) == IsZero(v[1]) /\ IsZero(v[2])

VAddF[p \in Vecs \X Vecs] == [i \in 1 .. 2 |-> FAdd(p[1][i], p[2][i])]

\* u + v, u += v
VAdd(u, v) == VAddF[<<u, v>>]

VSubF[p \in Vecs \X Vecs] == [i \in 1 .. 2 |-> FSub(p[1][i], p[2][i])]

\* u - v
VSub(u, v) == VSubF[<<u, v>>]

VScaleF[p \in Vecs \X Doubles] == [i \in 1 .. 2 |-> FMul(p[1][i], p[2])]

\* v * k
VScale(v, k) == VScaleF[<<v, k>>]

\* the squares of the coordinates
VSquaresF[v \in Vecs] == [i \in 1 .. 2 |-> FMul(v[i], v[i])]

MagnitudeF[v \in Vecs] == FSqrt(FAdd(VSquaresF[v][1], VSquaresF[v][2]))

\* Vector2.magnitude() / .length(): sqrt(x*x + y*y)
Magnitude(v) == MagnitudeF[v]

\* cos and sin of (deg * pi) / 180 for deg = 1 .. 359, as the C library gives
\* them to Vector2.rotate
VectorCosSin ==
    <<
       <<D(0, <<12170, 8150, 11273, 2047>>, -53), D(0, <<7454, 11815, 12466, 1143>>, -58)>>,
       <<D(0, <<1383, 8956, 12327, 2046>>, -53), D(0, <<7207, 10207, 9612, 1143>>, -57)>>,
       <<D(0, <<9757, 13387, 3166, 2045>>, -53), D(0, <<2317, 9151, 15476, 1714>>, -57)>>,
       <<D(0, <<16374, 1475, 183, 2043>>, -53), D(0, <<4392, 13737, 14582, 1142>>, -56)>>,
       <<D(0, <<5538, 4192, 3387, 2040>>, -53), D(0, <<258, 8970, 15723, 1427>>, -56)>>,
       <<D(0, <<10182, 5089, 12793, 2036>>, -53), D(0, <<5995, 11505, 9737, 1712>>, -56)>>,
       <<D(0, <<16011, 5768, 12034, 2032>>, -53), D(0, <<8915, 12605, 11588, 1996>>, -56)>>,
       <<D(0, <<5242, 9410, 1130, 2028>>, -53), D(0, <<7705, 6710, 1737, 1140>>, -55)>>,
       <<D(0, <<9308, 4287, 12873, 2022>>, -53), D(0, <<4981, 7841, 8374, 1281>>, -55)>>,
       <<D(0, <<7191, 12804, 14520, 2016>>, -53), D(0, <<13193, 14381, 8615, 1422>>, -55)>>,
       <<D(0, <<14018, 9442, 6102, 2010>>, -53), D(0, <<8783, 13785, 1757, 1563>>, -55)>>,
       <<D(0, <<128, 2536, 4035, 2003>>, -53), D(0, <<6389, 12553, 3482, 1703>>, -55)>>,
       <<D(0, <<1807, 1338, 8354, 1995>>, -53), D(0, <<1653, 6967, 13091, 1842>>, -55)>>,
       <<D(0, <<14885, 15846, 2713, 1987>>, -53), D(0, <<14621, 2962, 13503, 1981>>, -55)>>,
       <<D(0, <<16149, 7458, 3540, 1978>>, -53), D(0, <<1680, 1612, 2012, 1060>>, -54)>>,
       <<D(0, <<15232, 3449, 10878, 1968>>, -53), D(0, <<3625, 13514, 173, 1129>>, -54)>>,
       <<D(0, <<6943, 14831, 8390, 1958>>, -53), D(0, <<5576, 15887, 9084, 1197>>, -54)>>,
       <<D(0, <<5375, 3345, 12513, 1947>>, -53), D(0, <<10575, 7359, 12019, 1265>>, -54)>>,
       <<D(0, <<13515, 12282, 6914, 1936>>, -53), D(0, <<3547, 3, 8637, 1333>>, -54)>>,
       <<D(0, <<11548, 2376, 8036, 1924>>, -53), D(0, <<3061, 4648, 14983, 1400>>, -54)>>,
       <<D(0, <<14341, 15358, 15936, 1911>>, -53), D(0, <<4924, 16187, 14337, 1467>>, -54)>>,
       <<D(0, <<2904, 9823, 14295, 1898>>, -53), D(0, <<5761, 15254, 6366, 1534>>, -54)>>,
       <<D(0, <<9839, 8369, 3177, 1885>>, -53), D(0, <<16298, 2659, 7122, 1600>>, -54)>>,
       <<D(0, <<16277, 15357, 15418, 1870>>, -53), D(0, <<6864, 1048, 16274, 1665>>, -54)>>,
       <<D(0, <<5991, 183, 1939, 1856>>, -53), D(0, <<6227, 7390, 727, 1731>>, -54)>>,
       <<D(0, <<14538, 11608, 11963, 1840>>, -53), D(0, <<1480, 11000, 9309, 1795>>, -54)>>,
       <<D(0, <<11373, 13556, 12801, 1824>>, -53), D(0, <<7680, 11539, 8930, 1859>>, -54)>>,
       <<D(0, <<9992, 15796, 4532, 1808>>, -53), D(0, <<4217, 4241, 15655, 1922>>, -54)>>,
       <<D(0, <<14790, 8012, 3623, 1791>>, -53), D(0, <<8429, 14270, 12782, 1985>>, -54)>>,
       <<D(0, <<3243, 8545, 10158, 1773>>, -53), D(0, <<16383, 16383, 16383, 2047>>, -54)>>,
       <<D(0, <<10974, 14811, 7841, 1755>>, -53), D(0, <<7955, 1015, 13074, 1054>>, -53)>>,
       <<D(0, <<10565, 2870, 13148, 1736>>, -53), D(0, <<7466, 15027, 4499, 1085>>, -53)>>,
       <<D(0, <<12252, 8888, 9786, 1717>>, -53), D(0, <<14109, 7617, 6893, 1115>>, -53)>>,
       <<D(0, <<11940, 13987, 14236, 1697>>, -53), D(0, <<15635, 4167, 3720, 1145>>, -53)>>,
       <<D(0, <<1863, 9302, 10213, 1677>>, -53), D(0, <<2424, 8689, 11215, 1174>>, -53)>>,
       <<D(0, <<13480, 11871, 14201, 1656>>, -53), D(0, <<6750, 4565, 12848, 1203>>, -53)>>,
       <<D(0, <<14868, 14985, 9920, 1635>>, -53), D(0, <<16054, 4438, 8473, 1232>>, -53)>>,
       <<D(0, <<9170, 4049, 13861, 1613>>, -53), D(0, <<2360, 1783, 14331, 1260>>, -53)>>,
       <<D(0, <<9000, 5206, 9747, 1591>>, -53), D(0, <<15037, 4385, 13896, 1288>>, -53)>>,
       <<D(0, <<4153, 2877, 14074, 1568>>, -53), D(0, <<5660, 2288, 7029, 1316>>, -53)>>,
       <<D(0, <<7224, 4740, 10571, 1545>>, -53), D(0, <<4051, 1249, 9976, 1343>>, -53)>>,
       <<D(0, <<16066, 8398, 15738, 1521>>, -53), D(0, <<3032, 7048, 6217, 1370>>, -53)>>,
       <<D(0, <<10627, 801, 13310, 1497>>, -53), D(0, <<7211, 9778, 12003, 1396>>, -53)>>,
       <<D(0, <<3385, 6805, 3406, 1473>>, -53), D(0, <<13072, 897, 10819, 1422>>, -53)>>,
       <<D(0, <<15309, 6652, 2534, 1448>>, -53), D(0, <<15308, 6652, 2534, 1448>>, -53)>>,
       <<D(0, <<13073, 897, 10819, 1422>>, -53), D(0, <<3384, 6805, 3406, 1473>>, -53)>>,
       <<D(0, <<7211, 9778, 12003, 1396>>, -53), D(0, <<10626, 801, 13310, 1497>>, -53)>>,
       <<D(0, <<3032, 7048, 6217, 1370>>, -53), D(0, <<16065, 8398, 15738, 1521>>, -53)>>,
       <<D(0, <<4052, 1249, 9976, 1343>>, -53), D(0, <<7223, 4740, 10571, 1545>>, -53)>>,
       <<D(0, <<5661, 2288, 7029, 1316>>, -53), D(0, <<4153, 2877, 14074, 1568>>, -53)>>,
       <<D(0, <<15038, 4385, 13896, 1288>>, -53), D(0, <<8999, 5206, 9747, 1591>>, -53)>>,
       <<D(0, <<2361, 1783, 14331, 1260>>, -53), D(0, <<9170, 4049, 13861, 1613>>, -53)>>,
       <<D(0, <<16055, 4438, 8473, 1232>>, -53), D(0, <<14868, 14985, 9920, 1635>>, -53)>>,
       <<D(0, <<6750, 4565, 12848, 1203>>, -53), D(0, <<13480, 11871, 14201, 1656>>, -53)>>,
       <<D(0, <<2425, 8689, 11215, 1174>>, -53), D(0, <<1863, 9302, 10213, 1677>>, -53)>>,
       <<D(0, <<15634, 4167, 3720, 1145>>, -53), D(0, <<11941, 13987, 14236, 1697>>, -53)>>,
       <<D(0, <<14110, 7617, 6893, 1115>>, -53), D(0, <<12251, 8888, 9786, 1717>>, -53)>>,
       <<D(0, <<7466, 15027, 4499, 1085>>, -53), D(0, <<10565, 2870, 13148, 1736>>, -53)>>,
       <<D(0, <<7957, 1015, 13074, 1054>>, -53), D(0, <<10973, 14811, 7841, 1755>>, -53)>>,
       <<D(0, <<1, 0, 0, 1024>>, -53), D(0, <<3242, 8545, 10158, 1773>>, -53)>>,
       <<D(0, <<8430, 14270, 12782, 1985>>, -54), D(0, <<14790, 8012, 3623, 1791>>, -53)>>,
       <<D(0, <<4218, 4241, 15655, 1922>>, -54), D(0, <<9991, 15796, 4532, 1808>>, -53)>>,
       <<D(0, <<7681, 11539, 8930, 1859>>, -54), D(0, <<11372, 13556, 12801, 1824>>, -53)>>,
       <<D(0, <<1481, 11000, 9309, 1795>>, -54), D(0, <<14538, 11608, 11963, 1840>>, -53)>>,
       <<D(0, <<6227, 7390, 727, 1731>>, -54), D(0, <<5991, 183, 1939, 1856>>, -53)>>,
       <<D(0, <<6865, 1048, 16274, 1665>>, -54), D(0, <<16277, 15357, 15418, 1870>>, -53)>>,
       <<D(0, <<16302, 2659, 7122, 1600>>, -54), D(0, <<9838, 8369, 3177, 1885>>, -53)>>,
       <<D(0, <<5760, 15254, 6366, 1534>>, -54), D(0, <<2904, 9823, 14295, 1898>>, -53)>>,
       <<D(0, <<4926, 16187, 14337, 1467>>, -54), D(0, <<14341, 15358, 15936, 1911>>, -53)>>,
       <<D(0, <<3063, 4648, 14983, 1400>>, -54), D(0, <<11547, 2376, 8036, 1924>>, -53)>>,
       <<D(0, <<3549, 3, 8637, 1333>>, -54), D(0, <<13514, 12282, 6914, 1936>>, -53)>>,
       <<D(0, <<10576, 7359, 12019, 1265>>, -54), D(0, <<5375, 3345, 12513, 1947>>, -53)>>,
       <<D(0, <<5576, 15887, 9084, 1197>>, -54), D(0, <<6943, 14831, 8390, 1958>>, -53)>>,
       <<D(0, <<3625, 13514, 173, 1129>>, -54), D(0, <<15232, 3449, 10878, 1968>>, -53)>>,
       <<D(0, <<1680, 1612, 2012, 1060>>, -54), D(0, <<16149, 7458, 3540, 1978>>, -53)>>,
       <<D(0, <<14627, 2962, 13503, 1981>>, -55), D(0, <<14885, 15846, 2713, 1987>>, -53)>>,
       <<D(0, <<1650, 6967, 13091, 1842>>, -55), D(0, <<1807, 1338, 8354, 1995>>, -53)>>,
       <<D(0, <<6394, 12553, 3482, 1703>>, -55), D(0, <<127, 2536, 4035, 2003>>, -53)>>,
       <<D(0, <<8787, 13785, 1757, 1563>>, -55), D(0, <<14018, 9442, 6102, 2010>>, -53)>>,
       <<D(0, <<13196, 14381, 8615, 1422>>, -55), D(0, <<7191, 12804, 14520, 2016>>, -53)>>,
       <<D(0, <<4983, 7841, 8374, 1281>>, -55), D(0, <<9308, 4287, 12873, 2022>>, -53)>>,
       <<D(0, <<7714, 6710, 1737, 1140>>, -55), D(0, <<5241, 9410, 1130, 2028>>, -53)>>,
       <<D(0, <<8916, 12605, 11588, 1996>>, -56), D(0, <<16011, 5768, 12034, 2032>>, -53)>>,
       <<D(0, <<5995, 11505, 9737, 1712>>, -56), D(0, <<10182, 5089, 12793, 2036>>, -53)>>,
       <<D(0, <<256, 8970, 15723, 1427>>, -56), D(0, <<5538, 4192, 3387, 2040>>, -53)>>,
       <<D(0, <<4403, 13737, 14582, 1142>>, -56), D(0, <<16374, 1475, 183, 2043>>, -53)>>,
       <<D(0, <<2337, 9151, 15476, 1714>>, -57), D(0, <<9757, 13387, 3166, 2045>>, -53)>>,
       <<D(0, <<7223, 10207, 9612, 1143>>, -57), D(0, <<1383, 8956, 12327, 2046>>, -53)>>,
       <<D(0, <<7415, 11815, 12466, 1143>>, -58), D(0, <<12170, 8150, 11273, 2047>>, -53)>>,
       <<D(0, <<7175, 3153, 8803, 1129>>, -106), D(0, <<0, 0, 0, 1024>>, -52)>>,
       <<D(1, <<7444, 11815, 12466, 1143>>, -58), D(0, <<12170, 8150, 11273, 2047>>, -53)>>,
       <<D(1, <<7173, 10207, 9612, 1143>>, -57), D(0, <<1383, 8956, 12327, 2046>>, -53)>>,
       <<D(1, <<2287, 9151, 15476, 1714>>, -57), D(0, <<9757, 13387, 3166, 2045>>, -53)>>,
       <<D(1, <<4394, 13737, 14582, 1142>>, -56), D(0, <<16374, 1475, 183, 2043>>, -53)>>,
       <<D(1, <<263, 8970, 15723, 1427>>, -56), D(0, <<5538, 4192, 3387, 2040>>, -53)>>,
       <<D(1, <<5986, 11505, 9737, 1712>>, -56), D(0, <<10183, 5089, 12793, 2036>>, -53)>>,
       <<D(1, <<8907, 12605, 11588, 1996>>, -56), D(0, <<16012, 5768, 12034, 2032>>, -53)>>,
       <<D(1, <<7702, 6710, 1737, 1140>>, -55), D(0, <<5242, 9410, 1130, 2028>>, -53)>>,
       <<D(1, <<4987, 7841, 8374, 1281>>, -55), D(0, <<9307, 4287, 12873, 2022>>, -53)>>,
       <<D(1, <<13192, 14381, 8615, 1422>>, -55), D(0, <<7191, 12804, 14520, 2016>>, -53)>>,
       <<D(1, <<8783, 13785, 1757, 1563>>, -55), D(0, <<14018, 9442, 6102, 2010>>, -53)>>,
       <<D(1, <<6382, 12553, 3482, 1703>>, -55), D(0, <<128, 2536, 4035, 2003>>, -53)>>,
       <<D(1, <<1646, 6967, 13091, 1842>>, -55), D(0, <<1807, 1338, 8354, 1995>>, -53)>>,
       <<D(1, <<14623, 2962, 13503, 1981>>, -55), D(0, <<14885, 15846, 2713, 1987>>, -53)>>,
       <<D(1, <<1682, 1612, 2012, 1060>>, -54), D(0, <<16149, 7458, 3540, 1978>>, -53)>>,
       <<D(1, <<3623, 13514, 173, 1129>>, -54), D(0, <<15232, 3449, 10878, 1968>>, -53)>>,
       <<D(1, <<5574, 15887, 9084, 1197>>, -54), D(0, <<6944, 14831, 8390, 1958>>, -53)>>,
       <<D(1, <<10574, 7359, 12019, 1265>>, -54), D(0, <<5376, 3345, 12513, 1947>>, -53)>>,
       <<D(1, <<3543, 3, 8637, 1333>>, -54), D(0, <<13515, 12282, 6914, 1936>>, -53)>>,
       <<D(1, <<3061, 4648, 14983, 1400>>, -54), D(0, <<11548, 2376, 8036, 1924>>, -53)>>,
       <<D(1, <<4924, 16187, 14337, 1467>>, -54), D(0, <<14341, 15358, 15936, 1911>>, -53)>>,
       <<D(1, <<5762, 15254, 6366, 1534>>, -54), D(0, <<2904, 9823, 14295, 1898>>, -53)>>,
       <<D(1, <<16296, 2659, 7122, 1600>>, -54), D(0, <<9839, 8369, 3177, 1885>>, -53)>>,
       <<D(1, <<6862, 1048, 16274, 1665>>, -54), D(0, <<16278, 15357, 15418, 1870>>, -53)>>,
       <<D(1, <<6225, 7390, 727, 1731>>, -54), D(0, <<5992, 183, 1939, 1856>>, -53)>>,
       <<D(1, <<1482, 11000, 9309, 1795>>, -54), D(0, <<14537, 11608, 11963, 1840>>, -53)>>,
       <<D(1, <<7679, 11539, 8930, 1859>>, -54), D(0, <<11373, 13556, 12801, 1824>>, -53)>>,
       <<D(1, <<4212, 4241, 15655, 1922>>, -54), D(0, <<9993, 15796, 4532, 1808>>, -53)>>,
       <<D(1, <<8428, 14270, 12782, 1985>>, -54), D(0, <<14791, 8012, 3623, 1791>>, -53)>>,
       <<D(1, <<16380, 16383, 16383, 2047>>, -54), D(0, <<3243, 8545, 10158, 1773>>, -53)>>,
       <<D(1, <<7956, 1015, 13074, 1054>>, -53), D(0, <<10974, 14811, 7841, 1755>>, -53)>>,
       <<D(1, <<7465, 15027, 4499, 1085>>, -53), D(0, <<10566, 2870, 13148, 1736>>, -53)>>,
       <<D(1, <<14109, 7617, 6893, 1115>>, -53), D(0, <<12251, 8888, 9786, 1717>>, -53)>>,
       <<D(1, <<15633, 4167, 3720, 1145>>, -53), D(0, <<11941, 13987, 14236, 1697>>, -53)>>,
       <<D(1, <<2422, 8689, 11215, 1174>>, -53), D(0, <<1865, 9302, 10213, 1677>>, -53)>>,
       <<D(1, <<6749, 4565, 12848, 1203>>, -53), D(0, <<13480, 11871, 14201, 1656>>, -53)>>,
       <<D(1, <<16055, 4438, 8473, 1232>>, -53), D(0, <<14867, 14985, 9920, 1635>>, -53)>>,
       <<D(1, <<2361, 1783, 14331, 1260>>, -53), D(0, <<9170, 4049, 13861, 1613>>, -53)>>,
       <<D(1, <<15036, 4385, 13896, 1288>>, -53), D(0, <<9001, 5206, 9747, 1591>>, -53)>>,
       <<D(1, <<5661, 2288, 7029, 1316>>, -53), D(0, <<4153, 2877, 14074, 1568>>, -53)>>,
       <<D(1, <<4054, 1249, 9976, 1343>>, -53), D(0, <<7221, 4740, 10571, 1545>>, -53)>>,
       <<D(1, <<3032, 7048, 6217, 1370>>, -53), D(0, <<16066, 8398, 15738, 1521>>, -53)>>,
       <<D(1, <<7210, 9778, 12003, 1396>>, -53), D(0, <<10627, 801, 13310, 1497>>, -53)>>,
       <<D(1, <<13070, 897, 10819, 1422>>, -53), D(0, <<3387, 6805, 3406, 1473>>, -53)>>,
       <<D(1, <<15308, 6652, 2534, 1448>>, -53), D(0, <<15309, 6652, 2534, 1448>>, -53)>>,
       <<D(1, <<3385, 6805, 3406, 1473>>, -53), D(0, <<13071, 897, 10819, 1422>>, -53)>>,
       <<D(1, <<10626, 801, 13310, 1497>>, -53), D(0, <<7212, 9778, 12003, 1396>>, -53)>>,
       <<D(1, <<16064, 8398, 15738, 1521>>, -53), D(0, <<3033, 7048, 6217, 1370>>, -53)>>,
       <<D(1, <<7223, 4740, 10571, 1545>>, -53), D(0, <<4052, 1249, 9976, 1343>>, -53)>>,
       <<D(1, <<4152, 2877, 14074, 1568>>, -53), D(0, <<5662, 2288, 7029, 1316>>, -53)>>,
       <<D(1, <<8998, 5206, 9747, 1591>>, -53), D(0, <<15040, 4385, 13896, 1288>>, -53)>>,
       <<D(1, <<9169, 4049, 13861, 1613>>, -53), D(0, <<2362, 1783, 14331, 1260>>, -53)>>,
       <<D(1, <<14869, 14985, 9920, 1635>>, -53), D(0, <<16053, 4438, 8473, 1232>>, -53)>>,
       <<D(1, <<13479, 11871, 14201, 1656>>, -53), D(0, <<6751, 4565, 12848, 1203>>, -53)>>,
       <<D(1, <<1861, 9302, 10213, 1677>>, -53), D(0, <<2427, 8689, 11215, 1174>>, -53)>>,
       <<D(1, <<11940, 13987, 14236, 1697>>, -53), D(0, <<15635, 4167, 3720, 1145>>, -53)>>,
       <<D(1, <<12253, 8888, 9786, 1717>>, -53), D(0, <<14108, 7617, 6893, 1115>>, -53)>>,
       <<D(1, <<10565, 2870, 13148, 1736>>, -53), D(0, <<7466, 15027, 4499, 1085>>, -53)>>,
       <<D(1, <<10973, 14811, 7841, 1755>>, -53), D(0, <<7957, 1015, 13074, 1054>>, -53)>>,
       <<D(1, <<3243, 8545, 10158, 1773>>, -53), D(0, <<16383, 16383, 16383, 2047>>, -54)>>,
       <<D(1, <<14790, 8012, 3623, 1791>>, -53), D(0, <<8431, 14270, 12782, 1985>>, -54)>>,
       <<D(1, <<9990, 15796, 4532, 1808>>, -53), D(0, <<4222, 4241, 15655, 1922>>, -54)>>,
       <<D(1, <<11372, 13556, 12801, 1824>>, -53), D(0, <<7682, 11539, 8930, 1859>>, -54)>>,
       <<D(1, <<14538, 11608, 11963, 1840>>, -53), D(0, <<1478, 11000, 9309, 1795>>, -54)>>,
       <<D(1, <<5991, 183, 1939, 1856>>, -53), D(0, <<6228, 7390, 727, 1731>>, -54)>>,
       <<D(1, <<16276, 15357, 15418, 1870>>, -53), D(0, <<6869, 1048, 16274, 1665>>, -54)>>,
       <<D(1, <<9837, 8369, 3177, 1885>>, -53), D(0, <<16306, 2659, 7122, 1600>>, -54)>>,
       <<D(1, <<2903, 9823, 14295, 1898>>, -53), D(0, <<5765, 15254, 6366, 1534>>, -54)>>,
       <<D(1, <<14341, 15358, 15936, 1911>>, -53), D(0, <<4923, 16187, 14337, 1467>>, -54)>>,
       <<D(1, <<11547, 2376, 8036, 1924>>, -53), D(0, <<3064, 4648, 14983, 1400>>, -54)>>,
       <<D(1, <<13514, 12282, 6914, 1936>>, -53), D(0, <<3554, 3, 8637, 1333>>, -54)>>,
       <<D(1, <<5375, 3345, 12513, 1947>>, -53), D(0, <<10577, 7359, 12019, 1265>>, -54)>>,
       <<D(1, <<6943, 14831, 8390, 1958>>, -53), D(0, <<5581, 15887, 9084, 1197>>, -54)>>,
       <<D(1, <<15230, 3449, 10878, 1968>>, -53), D(0, <<3634, 13514, 173, 1129>>, -54)>>,
       <<D(1, <<16148, 7458, 3540, 1978>>, -53), D(0, <<1685, 1612, 2012, 1060>>, -54)>>,
       <<D(1, <<14885, 15846, 2713, 1987>>, -53), D(0, <<14621, 2962, 13503, 1981>>, -55)>>,
       <<D(1, <<1807, 1338, 8354, 1995>>, -53), D(0, <<1645, 6967, 13091, 1842>>, -55)>>,
       <<D(1, <<128, 2536, 4035, 2003>>, -53), D(0, <<6389, 12553, 3482, 1703>>, -55)>>,
       <<D(1, <<14018, 9442, 6102, 2010>>, -53), D(0, <<8789, 13785, 1757, 1563>>, -55)>>,
       <<D(1, <<7191, 12804, 14520, 2016>>, -53), D(0, <<13191, 14381, 8615, 1422>>, -55)>>,
       <<D(1, <<9307, 4287, 12873, 2022>>, -53), D(0, <<4985, 7841, 8374, 1281>>, -55)>>,
       <<D(1, <<5241, 9410, 1130, 2028>>, -53), D(0, <<7716, 6710, 1737, 1140>>, -55)>>,
       <<D(1, <<16011, 5768, 12034, 2032>>, -53), D(0, <<8920, 12605, 11588, 1996>>, -56)>>,
       <<D(1, <<10182, 5089, 12793, 2036>>, -53), D(0, <<6015, 11505, 9737, 1712>>, -56)>>,
       <<D(1, <<5538, 4192, 3387, 2040>>, -53), D(0, <<292, 8970, 15723, 1427>>, -56)>>,
       <<D(1, <<16374, 1475, 183, 2043>>, -53), D(0, <<4408, 13737, 14582, 1142>>, -56)>>,
       <<D(1, <<9757, 13387, 3166, 2045>>, -53), D(0, <<2314, 9151, 15476, 1714>>, -57)>>,
       <<D(1, <<1383, 8956, 12327, 2046>>, -53), D(0, <<7168, 10207, 9612, 1143>>, -57)>>,
       <<D(1, <<12170, 8150, 11273, 2047>>, -53), D(0, <<7433, 11815, 12466, 1143>>, -58)>>,
       <<D(1, <<0, 0, 0, 1024>>, -52), D(0, <<7175, 3153, 8803, 1129>>, -105)>>,
       <<D(1, <<12170, 8150, 11273, 2047>>, -53), D(1, <<7362, 11815, 12466, 1143>>, -58)>>,
       <<D(1, <<1383, 8956, 12327, 2046>>, -53), D(1, <<7197, 10207, 9612, 1143>>, -57)>>,
       <<D(1, <<9757, 13387, 3166, 2045>>, -53), D(1, <<2279, 9151, 15476, 1714>>, -57)>>,
       <<D(1, <<16375, 1475, 183, 2043>>, -53), D(1, <<4358, 13737, 14582, 1142>>, -56)>>,
       <<D(1, <<5538, 4192, 3387, 2040>>, -53), D(1, <<242, 8970, 15723, 1427>>, -56)>>,
       <<D(1, <<10183, 5089, 12793, 2036>>, -53), D(1, <<5966, 11505, 9737, 1712>>, -56)>>,
       <<D(1, <<16011, 5768, 12034, 2032>>, -53), D(1, <<8934, 12605, 11588, 1996>>, -56)>>,
       <<D(1, <<5241, 9410, 1130, 2028>>, -53), D(1, <<7708, 6710, 1737, 1140>>, -55)>>,
       <<D(1, <<9308, 4287, 12873, 2022>>, -53), D(1, <<4976, 7841, 8374, 1281>>, -55)>>,
       <<D(1, <<7191, 12804, 14520, 2016>>, -53), D(1, <<13198, 14381, 8615, 1422>>, -55)>>,
       <<D(1, <<14018, 9442, 6102, 2010>>, -53), D(1, <<8780, 13785, 1757, 1563>>, -55)>>,
       <<D(1, <<128, 2536, 4035, 2003>>, -53), D(1, <<6380, 12553, 3482, 1703>>, -55)>>,
       <<D(1, <<1807, 1338, 8354, 1995>>, -53), D(1, <<1652, 6967, 13091, 1842>>, -55)>>,
       <<D(1, <<14885, 15846, 2713, 1987>>, -53), D(1, <<14613, 2962, 13503, 1981>>, -55)>>,
       <<D(1, <<16150, 7458, 3540, 1978>>, -53), D(1, <<1673, 1612, 2012, 1060>>, -54)>>,
       <<D(1, <<15232, 3449, 10878, 1968>>, -53), D(1, <<3622, 13514, 173, 1129>>, -54)>>,
       <<D(1, <<6944, 14831, 8390, 1958>>, -53), D(1, <<5569, 15887, 9084, 1197>>, -54)>>,
       <<D(1, <<5375, 3345, 12513, 1947>>, -53), D(1, <<10581, 7359, 12019, 1265>>, -54)>>,
       <<D(1, <<13514, 12282, 6914, 1936>>, -53), D(1, <<3549, 3, 8637, 1333>>, -54)>>,
       <<D(1, <<11548, 2376, 8036, 1924>>, -53), D(1, <<3060, 4648, 14983, 1400>>, -54)>>,
       <<D(1, <<14341, 15358, 15936, 1911>>, -53), D(1, <<4927, 16187, 14337, 1467>>, -54)>>,
       <<D(1, <<2904, 9823, 14295, 1898>>, -53), D(1, <<5761, 15254, 6366, 1534>>, -54)>>,
       <<D(1, <<9839, 8369, 3177, 1885>>, -53), D(1, <<16295, 2659, 7122, 1600>>, -54)>>,
       <<D(1, <<16279, 15357, 15418, 1870>>, -53), D(1, <<6858, 1048, 16274, 1665>>, -54)>>,
       <<D(1, <<5992, 183, 1939, 1856>>, -53), D(1, <<6224, 7390, 727, 1731>>, -54)>>,
       <<D(1, <<14539, 11608, 11963, 1840>>, -53), D(1, <<1474, 11000, 9309, 1795>>, -54)>>,
       <<D(1, <<11375, 13556, 12801, 1824>>, -53), D(1, <<7671, 11539, 8930, 1859>>, -54)>>,
       <<D(1, <<9991, 15796, 4532, 1808>>, -53), D(1, <<4218, 4241, 15655, 1922>>, -54)>>,
       <<D(1, <<14791, 8012, 3623, 1791>>, -53), D(1, <<8427, 14270, 12782, 1985>>, -54)>>,
       <<D(1, <<3242, 8545, 10158, 1773>>, -53), D(1, <<1, 0, 0, 1024>>, -53)>>,
       <<D(1, <<10974, 14811, 7841, 1755>>, -53), D(1, <<7955, 1015, 13074, 1054>>, -53)>>,
       <<D(1, <<10566, 2870, 13148, 1736>>, -53), D(1, <<7465, 15027, 4499, 1085>>, -53)>>,
       <<D(1, <<12252, 8888, 9786, 1717>>, -53), D(1, <<14109, 7617, 6893, 1115>>, -53)>>,
       <<D(1, <<11942, 13987, 14236, 1697>>, -53), D(1, <<15633, 4167, 3720, 1145>>, -53)>>,
       <<D(1, <<1865, 9302, 10213, 1677>>, -53), D(1, <<2422, 8689, 11215, 1174>>, -53)>>,
       <<D(1, <<13481, 11871, 14201, 1656>>, -53), D(1, <<6749, 4565, 12848, 1203>>, -53)>>,
       <<D(1, <<14870, 14985, 9920, 1635>>, -53), D(1, <<16052, 4438, 8473, 1232>>, -53)>>,
       <<D(1, <<9172, 4049, 13861, 1613>>, -53), D(1, <<2357, 1783, 14331, 1260>>, -53)>>,
       <<D(1, <<8999, 5206, 9747, 1591>>, -53), D(1, <<15039, 4385, 13896, 1288>>, -53)>>,
       <<D(1, <<4153, 2877, 14074, 1568>>, -53), D(1, <<5660, 2288, 7029, 1316>>, -53)>>,
       <<D(1, <<7222, 4740, 10571, 1545>>, -53), D(1, <<4053, 1249, 9976, 1343>>, -53)>>,
       <<D(1, <<16066, 8398, 15738, 1521>>, -53), D(1, <<3032, 7048, 6217, 1370>>, -53)>>,
       <<D(1, <<10627, 801, 13310, 1497>>, -53), D(1, <<7210, 9778, 12003, 1396>>, -53)>>,
       <<D(1, <<3384, 6805, 3406, 1473>>, -53), D(1, <<13073, 897, 10819, 1422>>, -53)>>,
       <<D(1, <<15310, 6652, 2534, 1448>>, -53), D(1, <<15308, 6652, 2534, 1448>>, -53)>>,
       <<D(1, <<13075, 897, 10819, 1422>>, -53), D(1, <<3382, 6805, 3406, 1473>>, -53)>>,
       <<D(1, <<7215, 9778, 12003, 1396>>, -53), D(1, <<10623, 801, 13310, 1497>>, -53)>>,
       <<D(1, <<3034, 7048, 6217, 1370>>, -53), D(1, <<16064, 8398, 15738, 1521>>, -53)>>,
       <<D(1, <<4055, 1249, 9976, 1343>>, -53), D(1, <<7220, 4740, 10571, 1545>>, -53)>>,
       <<D(1, <<5662, 2288, 7029, 1316>>, -53), D(1, <<4152, 2877, 14074, 1568>>, -53)>>,
       <<D(1, <<15035, 4385, 13896, 1288>>, -53), D(1, <<9002, 5206, 9747, 1591>>, -53)>>,
       <<D(1, <<2359, 1783, 14331, 1260>>, -53), D(1, <<9171, 4049, 13861, 1613>>, -53)>>,
       <<D(1, <<16054, 4438, 8473, 1232>>, -53), D(1, <<14868, 14985, 9920, 1635>>, -53)>>,
       <<D(1, <<6751, 4565, 12848, 1203>>, -53), D(1, <<13479, 11871, 14201, 1656>>, -53)>>,
       <<D(1, <<2427, 8689, 11215, 1174>>, -53), D(1, <<1861, 9302, 10213, 1677>>, -53)>>,
       <<D(1, <<15638, 4167, 3720, 1145>>, -53), D(1, <<11938, 13987, 14236, 1697>>, -53)>>,
       <<D(1, <<14108, 7617, 6893, 1115>>, -53), D(1, <<12252, 8888, 9786, 1717>>, -53)>>,
       <<D(1, <<7467, 15027, 4499, 1085>>, -53), D(1, <<10565, 2870, 13148, 1736>>, -53)>>,
       <<D(1, <<7958, 1015, 13074, 1054>>, -53), D(1, <<10972, 14811, 7841, 1755>>, -53)>>,
       <<D(1, <<4, 0, 0, 1024>>, -53), D(1, <<3240, 8545, 10158, 1773>>, -53)>>,
       <<D(1, <<8425, 14270, 12782, 1985>>, -54), D(1, <<14792, 8012, 3623, 1791>>, -53)>>,
       <<D(1, <<4216, 4241, 15655, 1922>>, -54), D(1, <<9992, 15796, 4532, 1808>>, -53)>>,
       <<D(1, <<7683, 11539, 8930, 1859>>, -54), D(1, <<11372, 13556, 12801, 1824>>, -53)>>,
       <<D(1, <<1486, 11000, 9309, 1795>>, -54), D(1, <<14536, 11608, 11963, 1840>>, -53)>>,
       <<D(1, <<6236, 7390, 727, 1731>>, -54), D(1, <<5989, 183, 1939, 1856>>, -53)>>,
       <<D(1, <<6863, 1048, 16274, 1665>>, -54), D(1, <<16278, 15357, 15418, 1870>>, -53)>>,
       <<D(1, <<16300, 2659, 7122, 1600>>, -54), D(1, <<9838, 8369, 3177, 1885>>, -53)>>,
       <<D(1, <<5766, 15254, 6366, 1534>>, -54), D(1, <<2903, 9823, 14295, 1898>>, -53)>>,
       <<D(1, <<4932, 16187, 14337, 1467>>, -54), D(1, <<14340, 15358, 15936, 1911>>, -53)>>,
       <<D(1, <<3073, 4648, 14983, 1400>>, -54), D(1, <<11546, 2376, 8036, 1924>>, -53)>>,
       <<D(1, <<3547, 3, 8637, 1333>>, -54), D(1, <<13515, 12282, 6914, 1936>>, -53)>>,
       <<D(1, <<10578, 7359, 12019, 1265>>, -54), D(1, <<5375, 3345, 12513, 1947>>, -53)>>,
       <<D(1, <<5582, 15887, 9084, 1197>>, -54), D(1, <<6942, 14831, 8390, 1958>>, -53)>>,
       <<D(1, <<3620, 13514, 173, 1129>>, -54), D(1, <<15233, 3449, 10878, 1968>>, -53)>>,
       <<D(1, <<1678, 1612, 2012, 1060>>, -54), D(1, <<16149, 7458, 3540, 1978>>, -53)>>,
       <<D(1, <<14623, 2962, 13503, 1981>>, -55), D(1, <<14885, 15846, 2713, 1987>>, -53)>>,
       <<D(1, <<1662, 6967, 13091, 1842>>, -55), D(1, <<1806, 1338, 8354, 1995>>, -53)>>,
       <<D(1, <<6406, 12553, 3482, 1703>>, -55), D(1, <<127, 2536, 4035, 2003>>, -53)>>,
       <<D(1, <<8807, 13785, 1757, 1563>>, -55), D(1, <<14017, 9442, 6102, 2010>>, -53)>>,
       <<D(1, <<13193, 14381, 8615, 1422>>, -55), D(1, <<7191, 12804, 14520, 2016>>, -53)>>,
       <<D(1, <<4987, 7841, 8374, 1281>>, -55), D(1, <<9307, 4287, 12873, 2022>>, -53)>>,
       <<D(1, <<7687, 6710, 1737, 1140>>, -55), D(1, <<5242, 9410, 1130, 2028>>, -53)>>,
       <<D(1, <<8893, 12605, 11588, 1996>>, -56), D(1, <<16012, 5768, 12034, 2032>>, -53)>>,
       <<D(1, <<5988, 11505, 9737, 1712>>, -56), D(1, <<10183, 5089, 12793, 2036>>, -53)>>,
       <<D(1, <<264, 8970, 15723, 1427>>, -56), D(1, <<5538, 4192, 3387, 2040>>, -53)>>,
       <<D(1, <<4412, 13737, 14582, 1142>>, -56), D(1, <<16374, 1475, 183, 2043>>, -53)>>,
       <<D(1, <<2386, 9151, 15476, 1714>>, -57), D(1, <<9757, 13387, 3166, 2045>>, -53)>>,
       <<D(1, <<7305, 10207, 9612, 1143>>, -57), D(1, <<1382, 8956, 12327, 2046>>, -53)>>,
       <<D(1, <<7450, 11815, 12466, 1143>>, -58), D(1, <<12170, 8150, 11273, 2047>>, -53)>>,
       <<D(1, <<2570, 12922, 5012, 1694>>, -105), D(1, <<0, 0, 0, 1024>>, -52)>>,
       <<D(0, <<7344, 11815, 12466, 1143>>, -58), D(1, <<12170, 8150, 11273, 2047>>, -53)>>,
       <<D(0, <<7252, 10207, 9612, 1143>>, -57), D(1, <<1383, 8956, 12327, 2046>>, -53)>>,
       <<D(0, <<2334, 9151, 15476, 1714>>, -57), D(1, <<9757, 13387, 3166, 2045>>, -53)>>,
       <<D(0, <<4386, 13737, 14582, 1142>>, -56), D(1, <<16375, 1475, 183, 2043>>, -53)>>,
       <<D(0, <<238, 8970, 15723, 1427>>, -56), D(1, <<5538, 4192, 3387, 2040>>, -53)>>,
       <<D(0, <<5961, 11505, 9737, 1712>>, -56), D(1, <<10183, 5089, 12793, 2036>>, -53)>>,
       <<D(0, <<8930, 12605, 11588, 1996>>, -56), D(1, <<16011, 5768, 12034, 2032>>, -53)>>,
       <<D(0, <<7706, 6710, 1737, 1140>>, -55), D(1, <<5242, 9410, 1130, 2028>>, -53)>>,
       <<D(0, <<4974, 7841, 8374, 1281>>, -55), D(1, <<9308, 4287, 12873, 2022>>, -53)>>,
       <<D(0, <<13180, 14381, 8615, 1422>>, -55), D(1, <<7192, 12804, 14520, 2016>>, -53)>>,
       <<D(0, <<8763, 13785, 1757, 1563>>, -55), D(1, <<14019, 9442, 6102, 2010>>, -53)>>,
       <<D(0, <<6362, 12553, 3482, 1703>>, -55), D(1, <<129, 2536, 4035, 2003>>, -53)>>,
       <<D(0, <<1650, 6967, 13091, 1842>>, -55), D(1, <<1807, 1338, 8354, 1995>>, -53)>>,
       <<D(0, <<14611, 2962, 13503, 1981>>, -55), D(1, <<14886, 15846, 2713, 1987>>, -53)>>,
       <<D(0, <<1687, 1612, 2012, 1060>>, -54), D(1, <<16148, 7458, 3540, 1978>>, -53)>>,
       <<D(0, <<3629, 13514, 173, 1129>>, -54), D(1, <<15231, 3449, 10878, 1968>>, -53)>>,
       <<D(0, <<5575, 15887, 9084, 1197>>, -54), D(1, <<6943, 14831, 8390, 1958>>, -53)>>,
       <<D(0, <<10572, 7359, 12019, 1265>>, -54), D(1, <<5376, 3345, 12513, 1947>>, -53)>>,
       <<D(0, <<3541, 3, 8637, 1333>>, -54), D(1, <<13516, 12282, 6914, 1936>>, -53)>>,
       <<D(0, <<3051, 4648, 14983, 1400>>, -54), D(1, <<11549, 2376, 8036, 1924>>, -53)>>,
       <<D(0, <<4911, 16187, 14337, 1467>>, -54), D(1, <<14344, 15358, 15936, 1911>>, -53)>>,
       <<D(0, <<5760, 15254, 6366, 1534>>, -54), D(1, <<2904, 9823, 14295, 1898>>, -53)>>,
       <<D(0, <<16294, 2659, 7122, 1600>>, -54), D(1, <<9840, 8369, 3177, 1885>>, -53)>>,
       <<D(0, <<6871, 1048, 16274, 1665>>, -54), D(1, <<16276, 15357, 15418, 1870>>, -53)>>,
       <<D(0, <<6230, 7390, 727, 1731>>, -54), D(1, <<5991, 183, 1939, 1856>>, -53)>>,
       <<D(0, <<1480, 11000, 9309, 1795>>, -54), D(1, <<14538, 11608, 11963, 1840>>, -53)>>,
       <<D(0, <<7678, 11539, 8930, 1859>>, -54), D(1, <<11374, 13556, 12801, 1824>>, -53)>>,
       <<D(0, <<4210, 4241, 15655, 1922>>, -54), D(1, <<9993, 15796, 4532, 1808>>, -53)>>,
       <<D(0, <<8419, 14270, 12782, 1985>>, -54), D(1, <<14793, 8012, 3623, 1791>>, -53)>>,
       <<D(0, <<1, 0, 0, 1024>>, -53), D(1, <<3242, 8545, 10158, 1773>>, -53)>>,
       <<D(0, <<7955, 1015, 13074, 1054>>, -53), D(1, <<10974, 14811, 7841, 1755>>, -53)>>,
       <<D(0, <<7464, 15027, 4499, 1085>>, -53), D(1, <<10567, 2870, 13148, 1736>>, -53)>>,
       <<D(0, <<14105, 7617, 6893, 1115>>, -53), D(1, <<12254, 8888, 9786, 1717>>, -53)>>,
       <<D(0, <<15629, 4167, 3720, 1145>>, -53), D(1, <<11944, 13987, 14236, 1697>>, -53)>>,
       <<D(0, <<2424, 8689, 11215, 1174>>, -53), D(1, <<1863, 9302, 10213, 1677>>, -53)>>,
       <<D(0, <<6748, 4565, 12848, 1203>>, -53), D(1, <<13481, 11871, 14201, 1656>>, -53)>>,
       <<D(0, <<16051, 4438, 8473, 1232>>, -53), D(1, <<14870, 14985, 9920, 1635>>, -53)>>,
       <<D(0, <<2363, 1783, 14331, 1260>>, -53), D(1, <<9168, 4049, 13861, 1613>>, -53)>>,
       <<D(0, <<15038, 4385, 13896, 1288>>, -53), D(1, <<8999, 5206, 9747, 1591>>, -53)>>,
       <<D(0, <<5660, 2288, 7029, 1316>>, -53), D(1, <<4154, 2877, 14074, 1568>>, -53)>>,
       <<D(0, <<4050, 1249, 9976, 1343>>, -53), D(1, <<7225, 4740, 10571, 1545>>, -53)>>,
       <<D(0, <<3028, 7048, 6217, 1370>>, -53), D(1, <<16069, 8398, 15738, 1521>>, -53)>>,
       <<D(0, <<7207, 9778, 12003, 1396>>, -53), D(1, <<10631, 801, 13310, 1497>>, -53)>>,
       <<D(0, <<13066, 897, 10819, 1422>>, -53), D(1, <<3390, 6805, 3406, 1473>>, -53)>>,
       <<D(0, <<15307, 6652, 2534, 1448>>, -53), D(1, <<15310, 6652, 2534, 1448>>, -53)>>,
       <<D(0, <<3382, 6805, 3406, 1473>>, -53), D(1, <<13075, 897, 10819, 1422>>, -53)>>,
       <<D(0, <<10628, 801, 13310, 1497>>, -53), D(1, <<7209, 9778, 12003, 1396>>, -53)>>,
       <<D(0, <<16066, 8398, 15738, 1521>>, -53), D(1, <<3031, 7048, 6217, 1370>>, -53)>>,
       <<D(0, <<7222, 4740, 10571, 1545>>, -53), D(1, <<4053, 1249, 9976, 1343>>, -53)>>,
       <<D(0, <<4151, 2877, 14074, 1568>>, -53), D(1, <<5663, 2288, 7029, 1316>>, -53)>>,
       <<D(0, <<8997, 5206, 9747, 1591>>, -53), D(1, <<15041, 4385, 13896, 1288>>, -53)>>,
       <<D(0, <<9166, 4049, 13861, 1613>>, -53), D(1, <<2366, 1783, 14331, 1260>>, -53)>>,
       <<D(0, <<14868, 14985, 9920, 1635>>, -53), D(1, <<16054, 4438, 8473, 1232>>, -53)>>,
       <<D(0, <<13479, 11871, 14201, 1656>>, -53), D(1, <<6752, 4565, 12848, 1203>>, -53)>>,
       <<D(0, <<1861, 9302, 10213, 1677>>, -53), D(1, <<2428, 8689, 11215, 1174>>, -53)>>,
       <<D(0, <<11938, 13987, 14236, 1697>>, -53), D(1, <<15639, 4167, 3720, 1145>>, -53)>>,
       <<D(0, <<12252, 8888, 9786, 1717>>, -53), D(1, <<14108, 7617, 6893, 1115>>, -53)>>,
       <<D(0, <<10560, 2870, 13148, 1736>>, -53), D(1, <<7474, 15027, 4499, 1085>>, -53)>>,
       <<D(0, <<10972, 14811, 7841, 1755>>, -53), D(1, <<7958, 1015, 13074, 1054>>, -53)>>,
       <<D(0, <<3240, 8545, 10158, 1773>>, -53), D(1, <<4, 0, 0, 1024>>, -53)>>,
       <<D(0, <<14791, 8012, 3623, 1791>>, -53), D(1, <<8426, 14270, 12782, 1985>>, -54)>>,
       <<D(0, <<9991, 15796, 4532, 1808>>, -53), D(1, <<4217, 4241, 15655, 1922>>, -54)>>,
       <<D(0, <<11372, 13556, 12801, 1824>>, -53), D(1, <<7684, 11539, 8930, 1859>>, -54)>>,
       <<D(0, <<14539, 11608, 11963, 1840>>, -53), D(1, <<1473, 11000, 9309, 1795>>, -54)>>,
       <<D(0, <<5989, 183, 1939, 1856>>, -53), D(1, <<6237, 7390, 727, 1731>>, -54)>>,
       <<D(0, <<16278, 15357, 15418, 1870>>, -53), D(1, <<6864, 1048, 16274, 1665>>, -54)>>,
       <<D(0, <<9835, 8369, 3177, 1885>>, -53), D(1, <<16316, 2659, 7122, 1600>>, -54)>>,
       <<D(0, <<2903, 9823, 14295, 1898>>, -53), D(1, <<5767, 15254, 6366, 1534>>, -54)>>,
       <<D(0, <<14339, 15358, 15936, 1911>>, -53), D(1, <<4933, 16187, 14337, 1467>>, -54)>>,
       <<D(0, <<11548, 2376, 8036, 1924>>, -53), D(1, <<3059, 4648, 14983, 1400>>, -54)>>,
       <<D(0, <<13512, 12282, 6914, 1936>>, -53), D(1, <<3563, 3, 8637, 1333>>, -54)>>,
       <<D(0, <<5375, 3345, 12513, 1947>>, -53), D(1, <<10579, 7359, 12019, 1265>>, -54)>>,
       <<D(0, <<6945, 14831, 8390, 1958>>, -53), D(1, <<5567, 15887, 9084, 1197>>, -54)>>,
       <<D(0, <<15230, 3449, 10878, 1968>>, -53), D(1, <<3636, 13514, 173, 1129>>, -54)>>,
       <<D(0, <<16149, 7458, 3540, 1978>>, -53), D(1, <<1679, 1612, 2012, 1060>>, -54)>>,
       <<D(0, <<14885, 15846, 2713, 1987>>, -53), D(1, <<14626, 2962, 13503, 1981>>, -55)>>,
       <<D(0, <<1806, 1338, 8354, 1995>>, -53), D(1, <<1665, 6967, 13091, 1842>>, -55)>>,
       <<D(0, <<127, 2536, 4035, 2003>>, -53), D(1, <<6409, 12553, 3482, 1703>>, -55)>>,
       <<D(0, <<14018, 9442, 6102, 2010>>, -53), D(1, <<8778, 13785, 1757, 1563>>, -55)>>,
       <<D(0, <<7190, 12804, 14520, 2016>>, -53), D(1, <<13227, 14381, 8615, 1422>>, -55)>>,
       <<D(0, <<9307, 4287, 12873, 2022>>, -53), D(1, <<4990, 7841, 8374, 1281>>, -55)>>,
       <<D(0, <<5241, 9410, 1130, 2028>>, -53), D(1, <<7721, 6710, 1737, 1140>>, -55)>>,
       <<D(0, <<16011, 5768, 12034, 2032>>, -53), D(1, <<8961, 12605, 11588, 1996>>, -56)>>,
       <<D(0, <<10182, 5089, 12793, 2036>>, -53), D(1, <<5992, 11505, 9737, 1712>>, -56)>>,
       <<D(0, <<5538, 4192, 3387, 2040>>, -53), D(1, <<269, 8970, 15723, 1427>>, -56)>>,
       <<D(0, <<16375, 1475, 183, 2043>>, -53), D(1, <<4353, 13737, 14582, 1142>>, -56)>>,
       <<D(0, <<9757, 13387, 3166, 2045>>, -53), D(1, <<2395, 9151, 15476, 1714>>, -57)>>,
       <<D(0, <<1383, 8956, 12327, 2046>>, -53), D(1, <<7186, 10207, 9612, 1143>>, -57)>>,
       <<D(0, <<12170, 8150, 11273, 2047>>, -53), D(1, <<7724, 11815, 12466, 1143>>, -58)>>
    >>

\* v turned by the angle whose cosine and sine are cs: p is <<v, cs>>
RotateByF[p \in Vecs \X Vecs] ==
    <<FSub(FMul(p[2][1], p[1][1]), FMul(p[2][2], p[1][2])),
      FAdd(FMul(p[2][2], p[1][1]), FMul(p[2][1], p[1][2]))>>

RotateF[p \in Vecs \X Int] ==
    LET v == p[1]
        deg == p[2] % 360
    IN CASE deg = 0   -> v
         [] deg = 90  -> <<FNeg(v[2]), v[1]>>
         [] deg = 180 -> <<FNeg(v[1]), FNeg(v[2])>>
         [] deg = 270 -> <<v[2], FNeg(v[1])>>
         [] OTHER     -> RotateByF[<<v, VectorCosSin[deg]>>]

\* Vector2.rotate(deg) and rotate_ip(deg), counterclockwise in (x, y): the
\* angle is brought into [0, 360); quarter turns swap and negate the
\* coordinates, other angles go through cos and sin
Rotate(v, deg) == RotateF[<<v, deg>>]

\* Vector2.scale_to_length(len): each coordinate times len / magnitude
ScaleToLength(v, len) == VScale(v, FDiv(len, Magnitude(v)))

----------------------------------------------------------------------------
(* pg.Rect *)

Rect(left, top, w, h) == [left |-> left, top |-> top, w |-> w, h |-> h]

RectCenter(r) == <<r.left + r.w \div 2, r.top + r.h \div 2>>

\* rect.center = (cx, cy)
SetCenter(r, cx, cy) == [r EXCEPT !.left = cx - r.w \div 2, !.top = cy - r.h \div 2]

\* rect.topleft = (x, y)
SetTopLeft(r, x, y) == [r EXCEPT !.left = x, !.top = y]

\* rect.size = (w, h): the top left corner stays
SetSize(r, w, h) == [r EXCEPT !.w = w, !.h = h]

----------------------------------------------------------------------------
(* pg.Surface and pg.mask.Mask.  A surface is its size, whether its pixels *)
(* have an alpha of their own, and the set of its pixels whose alpha is    *)
(* not above the mask threshold ("clear"); a mask is its size and the set  *)
(* of its unset bits.                                                      *)

Pixels(w, h) == (0 .. w - 1) \X (0 .. h - 1)

\* pg.Surface(size): no per-pixel alpha, every pixel opaque
Surface(w, h) == [w |-> w, h |-> h, alpha |-> FALSE, clear |-> {}]

\* pg.image.load(path): the decoded picture, given by the asset, with its
\* alpha channel
Loaded(w, h, clear) == [w |-> w, h |-> h, alpha |-> TRUE, clear |-> clear]

\* pg.transform.scale(img, (w, h)): nearest source pixel
ScaleImage(img, w, h) ==
    [w |-> w, h |-> h, alpha |-> img.alpha,
     clear |-> {p \in Pixels(w, h) :
                  <<(p[1] * img.w) \div w, (p[2] * img.h) \div h>> \in img.clear}]

\* pg.transform.rotate by a multiple of 90 degrees, counterclockwise on screen
RotateQuarter(img, deg) ==
    CASE deg % 360 = 0   -> img
      [] deg % 360 = 90  ->
            [w |-> img.h, h |-> img.w, alpha |-> img.alpha,
             clear |-> {<<p[2], img.w - 1 - p[1]>> : p \in img.clear}]
      [] deg % 360 = 180 ->
            [w |-> img.w, h |-> img.h, alpha |-> img.alpha,
             clear |-> {<<img.w - 1 - p[1], img.h - 1 - p[2]>> : p \in img.clear}]
      [] deg % 360 = 270 ->
            [w |-> img.h, h |-> img.w, alpha |-> img.alpha,
             clear |-> {<<img.h - 1 - p[2], p[1]>> : p \in img.clear}]

\* cos and sin of deg * .01745329251994329 for deg = 1 .. 1080 (three full
\* turns, which no run here goes beyond), as the C library gives them to
\* pg.transform.rotate
ImageCosSin ==
    <<
       <<D(0, <<12170, 8150, 11273, 2047>>, -53), D(0, <<7452, 11815, 12466, 1143>>, -58)>>,
       <<D(0, <<1383, 8956, 12327, 2046>>, -53), D(0, <<7205, 10207, 9612, 1143>>, -57)>>,
       <<D(0, <<9757, 13387, 3166, 2045>>, -53), D(0, <<2314, 9151, 15476, 1714>>, -57)>>,
       <<D(0, <<16374, 1475, 183, 2043>>, -53), D(0, <<4390, 13737, 14582, 1142>>, -56)>>,
       <<D(0, <<5538, 4192, 3387, 2040>>, -53), D(0, <<256, 8970, 15723, 1427>>, -56)>>,
       <<D(0, <<10182, 5089, 12793, 2036>>, -53), D(0, <<5992, 11505, 9737, 1712>>, -56)>>,
       <<D(0, <<16012, 5768, 12034, 2032>>, -53), D(0, <<8911, 12605, 11588, 1996>>, -56)>>,
       <<D(0, <<5242, 9410, 1130, 2028>>, -53), D(0, <<7703, 6710, 1737, 1140>>, -55)>>,
       <<D(0, <<9308, 4287, 12873, 2022>>, -53), D(0, <<4979, 7841, 8374, 1281>>, -55)>>,
       <<D(0, <<7191, 12804, 14520, 2016>>, -53), D(0, <<13191, 14381, 8615, 1422>>, -55)>>,
       <<D(0, <<14018, 9442, 6102, 2010>>, -53), D(0, <<8781, 13785, 1757, 1563>>, -55)>>,
       <<D(0, <<128, 2536, 4035, 2003>>, -53), D(0, <<6386, 12553, 3482, 1703>>, -55)>>,
       <<D(0, <<1807, 1338, 8354, 1995>>, -53), D(0, <<1649, 6967, 13091, 1842>>, -55)>>,
       <<D(0, <<14885, 15846, 2713, 1987>>, -53), D(0, <<14617, 2962, 13503, 1981>>, -55)>>,
       <<D(0, <<16149, 7458, 3540, 1978>>, -53), D(0, <<1679, 1612, 2012, 1060>>, -54)>>,
       <<D(0, <<15232, 3449, 10878, 1968>>, -53), D(0, <<3623, 13514, 173, 1129>>, -54)>>,
       <<D(0, <<6944, 14831, 8390, 1958>>, -53), D(0, <<5573, 15887, 9084, 1197>>, -54)>>,
       <<D(0, <<5376, 3345, 12513, 1947>>, -53), D(0, <<10573, 7359, 12019, 1265>>, -54)>>,
       <<D(0, <<13515, 12282, 6914, 1936>>, -53), D(0, <<3545, 3, 8637, 1333>>, -54)>>,
       <<D(0, <<11548, 2376, 8036, 1924>>, -53), D(0, <<3059, 4648, 14983, 1400>>, -54)>>,
       <<D(0, <<14342, 15358, 15936, 1911>>, -53), D(0, <<4921, 16187, 14337, 1467>>, -54)>>,
       <<D(0, <<2904, 9823, 14295, 1898>>, -53), D(0, <<5759, 15254, 6366, 1534>>, -54)>>,
       <<D(0, <<9839, 8369, 3177, 1885>>, -53), D(0, <<16296, 2659, 7122, 1600>>, -54)>>,
       <<D(0, <<16278, 15357, 15418, 1870>>, -53), D(0, <<6862, 1048, 16274, 1665>>, -54)>>,
       <<D(0, <<5992, 183, 1939, 1856>>, -53), D(0, <<6224, 7390, 727, 1731>>, -54)>>,
       <<D(0, <<14538, 11608, 11963, 1840>>, -53), D(0, <<1477, 11000, 9309, 1795>>, -54)>>,
       <<D(0, <<11373, 13556, 12801, 1824>>, -53), D(0, <<7678, 11539, 8930, 1859>>, -54)>>,
       <<D(0, <<9992, 15796, 4532, 1808>>, -53), D(0, <<4213, 4241, 15655, 1922>>, -54)>>,
       <<D(0, <<14791, 8012, 3623, 1791>>, -53), D(0, <<8425, 14270, 12782, 1985>>, -54)>>,
       <<D(0, <<3243, 8545, 10158, 1773>>, -53), D(0, <<16381, 16383, 16383, 2047>>, -54)>>,
       <<D(0, <<10975, 14811, 7841, 1755>>, -53), D(0, <<7954, 1015, 13074, 1054>>, -53)>>,
       <<D(0, <<10566, 2870, 13148, 1736>>, -53), D(0, <<7465, 15027, 4499, 1085>>, -53)>>,
       <<D(0, <<12253, 8888, 9786, 1717>>, -53), D(0, <<14107, 7617, 6893, 1115>>, -53)>>,
       <<D(0, <<11942, 13987, 14236, 1697>>, -53), D(0, <<15632, 4167, 3720, 1145>>, -53)>>,
       <<D(0, <<1864, 9302, 10213, 1677>>, -53), D(0, <<2422, 8689, 11215, 1174>>, -53)>>,
       <<D(0, <<13481, 11871, 14201, 1656>>, -53), D(0, <<6748, 4565, 12848, 1203>>, -53)>>,
       <<D(0, <<14869, 14985, 9920, 1635>>, -53), D(0, <<16053, 4438, 8473, 1232>>, -53)>>,
       <<D(0, <<9171, 4049, 13861, 1613>>, -53), D(0, <<2359, 1783, 14331, 1260>>, -53)>>,
       <<D(0, <<9001, 5206, 9747, 1591>>, -53), D(0, <<15036, 4385, 13896, 1288>>, -53)>>,
       <<D(0, <<4155, 2877, 14074, 1568>>, -53), D(0, <<5659, 2288, 7029, 1316>>, -53)>>,
       <<D(0, <<7225, 4740, 10571, 1545>>, -53), D(0, <<4050, 1249, 9976, 1343>>, -53)>>,
       <<D(0, <<16068, 8398, 15738, 1521>>, -53), D(0, <<3030, 7048, 6217, 1370>>, -53)>>,
       <<D(0, <<10628, 801, 13310, 1497>>, -53), D(0, <<7209, 9778, 12003, 1396>>, -53)>>,
       <<D(0, <<3386, 6805, 3406, 1473>>, -53), D(0, <<13070, 897, 10819, 1422>>, -53)>>,
       <<D(0, <<15311, 6652, 2534, 1448>>, -53), D(0, <<15306, 6652, 2534, 1448>>, -53)>>,
       <<D(0, <<13074, 897, 10819, 1422>>, -53), D(0, <<3382, 6805, 3406, 1473>>, -53)>>,
       <<D(0, <<7213, 9778, 12003, 1396>>, -53), D(0, <<10624, 801, 13310, 1497>>, -53)>>,
       <<D(0, <<3034, 7048, 6217, 1370>>, -53), D(0, <<16063, 8398, 15738, 1521>>, -53)>>,
       <<D(0, <<4055, 1249, 9976, 1343>>, -53), D(0, <<7221, 4740, 10571, 1545>>, -53)>>,
       <<D(0, <<5663, 2288, 7029, 1316>>, -53), D(0, <<4151, 2877, 14074, 1568>>, -53)>>,
       <<D(0, <<15040, 4385, 13896, 1288>>, -53), D(0, <<8998, 5206, 9747, 1591>>, -53)>>,
       <<D(0, <<2364, 1783, 14331, 1260>>, -53), D(0, <<9167, 4049, 13861, 1613>>, -53)>>,
       <<D(0, <<16057, 4438, 8473, 1232>>, -53), D(0, <<14866, 14985, 9920, 1635>>, -53)>>,
       <<D(0, <<6753, 4565, 12848, 1203>>, -53), D(0, <<13478, 11871, 14201, 1656>>, -53)>>,
       <<D(0, <<2427, 8689, 11215, 1174>>, -53), D(0, <<1861, 9302, 10213, 1677>>, -53)>>,
       <<D(0, <<15638, 4167, 3720, 1145>>, -53), D(0, <<11938, 13987, 14236, 1697>>, -53)>>,
       <<D(0, <<14112, 7617, 6893, 1115>>, -53), D(0, <<12250, 8888, 9786, 1717>>, -53)>>,
       <<D(0, <<7469, 15027, 4499, 1085>>, -53), D(0, <<10563, 2870, 13148, 1736>>, -53)>>,
       <<D(0, <<7958, 1015, 13074, 1054>>, -53), D(0, <<10972, 14811, 7841, 1755>>, -53)>>,
       <<D(0, <<3, 0, 0, 1024>>, -53), D(0, <<3241, 8545, 10158, 1773>>, -53)>>,
       <<D(0, <<8437, 14270, 12782, 1985>>, -54), D(0, <<14788, 8012, 3623, 1791>>, -53)>>,
       <<D(0, <<4225, 4241, 15655, 1922>>, -54), D(0, <<9989, 15796, 4532, 1808>>, -53)>>,
       <<D(0, <<7689, 11539, 8930, 1859>>, -54), D(0, <<11371, 13556, 12801, 1824>>, -53)>>,
       <<D(0, <<1488, 11000, 9309, 1795>>, -54), D(0, <<14536, 11608, 11963, 1840>>, -53)>>,
       <<D(0, <<6234, 7390, 727, 1731>>, -54), D(0, <<5990, 183, 1939, 1856>>, -53)>>,
       <<D(0, <<6872, 1048, 16274, 1665>>, -54), D(0, <<16276, 15357, 15418, 1870>>, -53)>>,
       <<D(0, <<16305, 2659, 7122, 1600>>, -54), D(0, <<9837, 8369, 3177, 1885>>, -53)>>,
       <<D(0, <<5771, 15254, 6366, 1534>>, -54), D(0, <<2902, 9823, 14295, 1898>>, -53)>>,
       <<D(0, <<4934, 16187, 14337, 1467>>, -54), D(0, <<14339, 15358, 15936, 1911>>, -53)>>,
       <<D(0, <<3071, 4648, 14983, 1400>>, -54), D(0, <<11546, 2376, 8036, 1924>>, -53)>>,
       <<D(0, <<3556, 3, 8637, 1333>>, -54), D(0, <<13513, 12282, 6914, 1936>>, -53)>>,
       <<D(0, <<10584, 7359, 12019, 1265>>, -54), D(0, <<5374, 3345, 12513, 1947>>, -53)>>,
       <<D(0, <<5583, 15887, 9084, 1197>>, -54), D(0, <<6942, 14831, 8390, 1958>>, -53)>>,
       <<D(0, <<3633, 13514, 173, 1129>>, -54), D(0, <<15231, 3449, 10878, 1968>>, -53)>>,
       <<D(0, <<1692, 1612, 2012, 1060>>, -54), D(0, <<16147, 7458, 3540, 1978>>, -53)>>,
       <<D(0, <<14642, 2962, 13503, 1981>>, -55), D(0, <<14884, 15846, 2713, 1987>>, -53)>>,
       <<D(0, <<1674, 6967, 13091, 1842>>, -55), D(0, <<1806, 1338, 8354, 1995>>, -53)>>,
       <<D(0, <<6410, 12553, 3482, 1703>>, -55), D(0, <<126, 2536, 4035, 2003>>, -53)>>,
       <<D(0, <<8803, 13785, 1757, 1563>>, -55), D(0, <<14017, 9442, 6102, 2010>>, -53)>>,
       <<D(0, <<13212, 14381, 8615, 1422>>, -55), D(0, <<7191, 12804, 14520, 2016>>, -53)>>,
       <<D(0, <<4999, 7841, 8374, 1281>>, -55), D(0, <<9307, 4287, 12873, 2022>>, -53)>>,
       <<D(0, <<7730, 6710, 1737, 1140>>, -55), D(0, <<5241, 9410, 1130, 2028>>, -53)>>,
       <<D(0, <<8964, 12605, 11588, 1996>>, -56), D(0, <<16011, 5768, 12034, 2032>>, -53)>>,
       <<D(0, <<6043, 11505, 9737, 1712>>, -56), D(0, <<10182, 5089, 12793, 2036>>, -53)>>,
       <<D(0, <<303, 8970, 15723, 1427>>, -56), D(0, <<5537, 4192, 3387, 2040>>, -53)>>,
       <<D(0, <<4435, 13737, 14582, 1142>>, -56), D(0, <<16374, 1475, 183, 2043>>, -53)>>,
       <<D(0, <<2401, 9151, 15476, 1714>>, -57), D(0, <<9757, 13387, 3166, 2045>>, -53)>>,
       <<D(0, <<7287, 10207, 9612, 1143>>, -57), D(0, <<1383, 8956, 12327, 2046>>, -53)>>,
       <<D(0, <<7671, 11815, 12466, 1143>>, -58), D(0, <<12170, 8150, 11273, 2047>>, -53)>>,
       <<D(0, <<2945, 6538, 3148, 1677>>, -103), D(0, <<0, 0, 0, 1024>>, -52)>>,
       <<D(1, <<7252, 11815, 12466, 1143>>, -58), D(0, <<12170, 8150, 11273, 2047>>, -53)>>,
       <<D(1, <<7110, 10207, 9612, 1143>>, -57), D(0, <<1383, 8956, 12327, 2046>>, -53)>>,
       <<D(1, <<2223, 9151, 15476, 1714>>, -57), D(0, <<9758, 13387, 3166, 2045>>, -53)>>,
       <<D(1, <<4346, 13737, 14582, 1142>>, -56), D(0, <<16375, 1475, 183, 2043>>, -53)>>,
       <<D(1, <<215, 8970, 15723, 1427>>, -56), D(0, <<5538, 4192, 3387, 2040>>, -53)>>,
       <<D(1, <<5938, 11505, 9737, 1712>>, -56), D(0, <<10183, 5089, 12793, 2036>>, -53)>>,
       <<D(1, <<8859, 12605, 11588, 1996>>, -56), D(0, <<16012, 5768, 12034, 2032>>, -53)>>,
       <<D(1, <<7678, 6710, 1737, 1140>>, -55), D(0, <<5243, 9410, 1130, 2028>>, -53)>>,
       <<D(1, <<4955, 7841, 8374, 1281>>, -55), D(0, <<9309, 4287, 12873, 2022>>, -53)>>,
       <<D(1, <<13168, 14381, 8615, 1422>>, -55), D(0, <<7192, 12804, 14520, 2016>>, -53)>>,
       <<D(1, <<8759, 13785, 1757, 1563>>, -55), D(0, <<14019, 9442, 6102, 2010>>, -53)>>,
       <<D(1, <<6366, 12553, 3482, 1703>>, -55), D(0, <<129, 2536, 4035, 2003>>, -53)>>,
       <<D(1, <<1630, 6967, 13091, 1842>>, -55), D(0, <<1808, 1338, 8354, 1995>>, -53)>>,
       <<D(1, <<14592, 2962, 13503, 1981>>, -55), D(0, <<14887, 15846, 2713, 1987>>, -53)>>,
       <<D(1, <<1666, 1612, 2012, 1060>>, -54), D(0, <<16151, 7458, 3540, 1978>>, -53)>>,
       <<D(1, <<3612, 13514, 173, 1129>>, -54), D(0, <<15234, 3449, 10878, 1968>>, -53)>>,
       <<D(1, <<5562, 15887, 9084, 1197>>, -54), D(0, <<6945, 14831, 8390, 1958>>, -53)>>,
       <<D(1, <<10563, 7359, 12019, 1265>>, -54), D(0, <<5377, 3345, 12513, 1947>>, -53)>>,
       <<D(1, <<3535, 3, 8637, 1333>>, -54), D(0, <<13517, 12282, 6914, 1936>>, -53)>>,
       <<D(1, <<3050, 4648, 14983, 1400>>, -54), D(0, <<11550, 2376, 8036, 1924>>, -53)>>,
       <<D(1, <<4909, 16187, 14337, 1467>>, -54), D(0, <<14344, 15358, 15936, 1911>>, -53)>>,
       <<D(1, <<5747, 15254, 6366, 1534>>, -54), D(0, <<2907, 9823, 14295, 1898>>, -53)>>,
       <<D(1, <<16285, 2659, 7122, 1600>>, -54), D(0, <<9842, 8369, 3177, 1885>>, -53)>>,
       <<D(1, <<6852, 1048, 16274, 1665>>, -54), D(0, <<16280, 15357, 15418, 1870>>, -53)>>,
       <<D(1, <<6210, 7390, 727, 1731>>, -54), D(0, <<5995, 183, 1939, 1856>>, -53)>>,
       <<D(1, <<1468, 11000, 9309, 1795>>, -54), D(0, <<14541, 11608, 11963, 1840>>, -53)>>,
       <<D(1, <<7665, 11539, 8930, 1859>>, -54), D(0, <<11377, 13556, 12801, 1824>>, -53)>>,
       <<D(1, <<4205, 4241, 15655, 1922>>, -54), D(0, <<9995, 15796, 4532, 1808>>, -53)>>,
       <<D(1, <<8414, 14270, 12782, 1985>>, -54), D(0, <<14795, 8012, 3623, 1791>>, -53)>>,
       <<D(1, <<16373, 16383, 16383, 2047>>, -54), D(0, <<3245, 8545, 10158, 1773>>, -53)>>,
       <<D(1, <<7949, 1015, 13074, 1054>>, -53), D(0, <<10978, 14811, 7841, 1755>>, -53)>>,
       <<D(1, <<7458, 15027, 4499, 1085>>, -53), D(0, <<10570, 2870, 13148, 1736>>, -53)>>,
       <<D(1, <<14103, 7617, 6893, 1115>>, -53), D(0, <<12256, 8888, 9786, 1717>>, -53)>>,
       <<D(1, <<15627, 4167, 3720, 1145>>, -53), D(0, <<11946, 13987, 14236, 1697>>, -53)>>,
       <<D(1, <<2419, 8689, 11215, 1174>>, -53), D(0, <<1867, 9302, 10213, 1677>>, -53)>>,
       <<D(1, <<6743, 4565, 12848, 1203>>, -53), D(0, <<13485, 11871, 14201, 1656>>, -53)>>,
       <<D(1, <<16049, 4438, 8473, 1232>>, -53), D(0, <<14872, 14985, 9920, 1635>>, -53)>>,
       <<D(1, <<2354, 1783, 14331, 1260>>, -53), D(0, <<9175, 4049, 13861, 1613>>, -53)>>,
       <<D(1, <<15030, 4385, 13896, 1288>>, -53), D(0, <<9006, 5206, 9747, 1591>>, -53)>>,
       <<D(1, <<5655, 2288, 7029, 1316>>, -53), D(0, <<4158, 2877, 14074, 1568>>, -53)>>,
       <<D(1, <<4045, 1249, 9976, 1343>>, -53), D(0, <<7229, 4740, 10571, 1545>>, -53)>>,
       <<D(1, <<3026, 7048, 6217, 1370>>, -53), D(0, <<16071, 8398, 15738, 1521>>, -53)>>,
       <<D(1, <<7204, 9778, 12003, 1396>>, -53), D(0, <<10633, 801, 13310, 1497>>, -53)>>,
       <<D(1, <<13067, 897, 10819, 1422>>, -53), D(0, <<3389, 6805, 3406, 1473>>, -53)>>,
       <<D(1, <<15302, 6652, 2534, 1448>>, -53), D(0, <<15315, 6652, 2534, 1448>>, -53)>>,
       <<D(1, <<3377, 6805, 3406, 1473>>, -53), D(0, <<13080, 897, 10819, 1422>>, -53)>>,
       <<D(1, <<10620, 801, 13310, 1497>>, -53), D(0, <<7217, 9778, 12003, 1396>>, -53)>>,
       <<D(1, <<16059, 8398, 15738, 1521>>, -53), D(0, <<3039, 7048, 6217, 1370>>, -53)>>,
       <<D(1, <<7218, 4740, 10571, 1545>>, -53), D(0, <<4058, 1249, 9976, 1343>>, -53)>>,
       <<D(1, <<4147, 2877, 14074, 1568>>, -53), D(0, <<5668, 2288, 7029, 1316>>, -53)>>,
       <<D(1, <<8995, 5206, 9747, 1591>>, -53), D(0, <<15043, 4385, 13896, 1288>>, -53)>>,
       <<D(1, <<9164, 4049, 13861, 1613>>, -53), D(0, <<2368, 1783, 14331, 1260>>, -53)>>,
       <<D(1, <<14861, 14985, 9920, 1635>>, -53), D(0, <<16063, 4438, 8473, 1232>>, -53)>>,
       <<D(1, <<13475, 11871, 14201, 1656>>, -53), D(0, <<6757, 4565, 12848, 1203>>, -53)>>,
       <<D(1, <<1857, 9302, 10213, 1677>>, -53), D(0, <<2433, 8689, 11215, 1174>>, -53)>>,
       <<D(1, <<11936, 13987, 14236, 1697>>, -53), D(0, <<15641, 4167, 3720, 1145>>, -53)>>,
       <<D(1, <<12246, 8888, 9786, 1717>>, -53), D(0, <<14118, 7617, 6893, 1115>>, -53)>>,
       <<D(1, <<10561, 2870, 13148, 1736>>, -53), D(0, <<7473, 15027, 4499, 1085>>, -53)>>,
       <<D(1, <<10969, 14811, 7841, 1755>>, -53), D(0, <<7964, 1015, 13074, 1054>>, -53)>>,
       <<D(1, <<3237, 8545, 10158, 1773>>, -53), D(0, <<10, 0, 0, 1024>>, -53)>>,
       <<D(1, <<14786, 8012, 3623, 1791>>, -53), D(0, <<8445, 14270, 12782, 1985>>, -54)>>,
       <<D(1, <<9986, 15796, 4532, 1808>>, -53), D(0, <<4236, 4241, 15655, 1922>>, -54)>>,
       <<D(1, <<11369, 13556, 12801, 1824>>, -53), D(0, <<7697, 11539, 8930, 1859>>, -54)>>,
       <<D(1, <<14533, 11608, 11963, 1840>>, -53), D(0, <<1500, 11000, 9309, 1795>>, -54)>>,
       <<D(1, <<5988, 183, 1939, 1856>>, -53), D(0, <<6242, 7390, 727, 1731>>, -54)>>,
       <<D(1, <<16273, 15357, 15418, 1870>>, -53), D(0, <<6884, 1048, 16274, 1665>>, -54)>>,
       <<D(1, <<9834, 8369, 3177, 1885>>, -53), D(0, <<16321, 2659, 7122, 1600>>, -54)>>,
       <<D(1, <<2900, 9823, 14295, 1898>>, -53), D(0, <<5780, 15254, 6366, 1534>>, -54)>>,
       <<D(1, <<14337, 15358, 15936, 1911>>, -53), D(0, <<4946, 16187, 14337, 1467>>, -54)>>,
       <<D(1, <<11544, 2376, 8036, 1924>>, -53), D(0, <<3079, 4648, 14983, 1400>>, -54)>>,
       <<D(1, <<13511, 12282, 6914, 1936>>, -53), D(0, <<3569, 3, 8637, 1333>>, -54)>>,
       <<D(1, <<5373, 3345, 12513, 1947>>, -53), D(0, <<10593, 7359, 12019, 1265>>, -54)>>,
       <<D(1, <<6940, 14831, 8390, 1958>>, -53), D(0, <<5596, 15887, 9084, 1197>>, -54)>>,
       <<D(1, <<15228, 3449, 10878, 1968>>, -53), D(0, <<3650, 13514, 173, 1129>>, -54)>>,
       <<D(1, <<16146, 7458, 3540, 1978>>, -53), D(0, <<1700, 1612, 2012, 1060>>, -54)>>,
       <<D(1, <<14882, 15846, 2713, 1987>>, -53), D(0, <<14668, 2962, 13503, 1981>>, -55)>>,
       <<D(1, <<1805, 1338, 8354, 1995>>, -53), D(0, <<1691, 6967, 13091, 1842>>, -55)>>,
       <<D(1, <<125, 2536, 4035, 2003>>, -53), D(0, <<6436, 12553, 3482, 1703>>, -55)>>,
       <<D(1, <<14016, 9442, 6102, 2010>>, -53), D(0, <<8821, 13785, 1757, 1563>>, -55)>>,
       <<D(1, <<7189, 12804, 14520, 2016>>, -53), D(0, <<13238, 14381, 8615, 1422>>, -55)>>,
       <<D(1, <<9306, 4287, 12873, 2022>>, -53), D(0, <<5033, 7841, 8374, 1281>>, -55)>>,
       <<D(1, <<5240, 9410, 1130, 2028>>, -53), D(0, <<7748, 6710, 1737, 1140>>, -55)>>,
       <<D(1, <<16010, 5768, 12034, 2032>>, -53), D(0, <<9016, 12605, 11588, 1996>>, -56)>>,
       <<D(1, <<10181, 5089, 12793, 2036>>, -53), D(0, <<6079, 11505, 9737, 1712>>, -56)>>,
       <<D(1, <<5537, 4192, 3387, 2040>>, -53), D(0, <<356, 8970, 15723, 1427>>, -56)>>,
       <<D(1, <<16374, 1475, 183, 2043>>, -53), D(0, <<4471, 13737, 14582, 1142>>, -56)>>,
       <<D(1, <<9757, 13387, 3166, 2045>>, -53), D(0, <<2505, 9151, 15476, 1714>>, -57)>>,
       <<D(1, <<1382, 8956, 12327, 2046>>, -53), D(0, <<7424, 10207, 9612, 1143>>, -57)>>,
       <<D(1, <<12170, 8150, 11273, 2047>>, -53), D(0, <<7816, 11815, 12466, 1143>>, -58)>>,
       <<D(1, <<0, 0, 0, 1024>>, -52), D(0, <<2945, 6538, 3148, 1677>>, -102)>>,
       <<D(1, <<12170, 8150, 11273, 2047>>, -53), D(1, <<7106, 11815, 12466, 1143>>, -58)>>,
       <<D(1, <<1383, 8956, 12327, 2046>>, -53), D(1, <<7005, 10207, 9612, 1143>>, -57)>>,
       <<D(1, <<9758, 13387, 3166, 2045>>, -53), D(1, <<2151, 9151, 15476, 1714>>, -57)>>,
       <<D(1, <<16375, 1475, 183, 2043>>, -53), D(1, <<4294, 13737, 14582, 1142>>, -56)>>,
       <<D(1, <<5539, 4192, 3387, 2040>>, -53), D(1, <<147, 8970, 15723, 1427>>, -56)>>,
       <<D(1, <<10184, 5089, 12793, 2036>>, -53), D(1, <<5902, 11505, 9737, 1712>>, -56)>>,
       <<D(1, <<16013, 5768, 12034, 2032>>, -53), D(1, <<8807, 12605, 11588, 1996>>, -56)>>,
       <<D(1, <<5243, 9410, 1130, 2028>>, -53), D(1, <<7660, 6710, 1737, 1140>>, -55)>>,
       <<D(1, <<9310, 4287, 12873, 2022>>, -53), D(1, <<4929, 7841, 8374, 1281>>, -55)>>,
       <<D(1, <<7193, 12804, 14520, 2016>>, -53), D(1, <<13151, 14381, 8615, 1422>>, -55)>>,
       <<D(1, <<14020, 9442, 6102, 2010>>, -53), D(1, <<8733, 13785, 1757, 1563>>, -55)>>,
       <<D(1, <<131, 2536, 4035, 2003>>, -53), D(1, <<6333, 12553, 3482, 1703>>, -55)>>,
       <<D(1, <<1810, 1338, 8354, 1995>>, -53), D(1, <<1605, 6967, 13091, 1842>>, -55)>>,
       <<D(1, <<14888, 15846, 2713, 1987>>, -53), D(1, <<14566, 2962, 13503, 1981>>, -55)>>,
       <<D(1, <<16152, 7458, 3540, 1978>>, -53), D(1, <<1658, 1612, 2012, 1060>>, -54)>>,
       <<D(1, <<15235, 3449, 10878, 1968>>, -53), D(1, <<3599, 13514, 173, 1129>>, -54)>>,
       <<D(1, <<6947, 14831, 8390, 1958>>, -53), D(1, <<5553, 15887, 9084, 1197>>, -54)>>,
       <<D(1, <<5379, 3345, 12513, 1947>>, -53), D(1, <<10550, 7359, 12019, 1265>>, -54)>>,
       <<D(1, <<13518, 12282, 6914, 1936>>, -53), D(1, <<3527, 3, 8637, 1333>>, -54)>>,
       <<D(1, <<11552, 2376, 8036, 1924>>, -53), D(1, <<3037, 4648, 14983, 1400>>, -54)>>,
       <<D(1, <<14346, 15358, 15936, 1911>>, -53), D(1, <<4897, 16187, 14337, 1467>>, -54)>>,
       <<D(1, <<2908, 9823, 14295, 1898>>, -53), D(1, <<5738, 15254, 6366, 1534>>, -54)>>,
       <<D(1, <<9844, 8369, 3177, 1885>>, -53), D(1, <<16273, 2659, 7122, 1600>>, -54)>>,
       <<D(1, <<16282, 15357, 15418, 1870>>, -53), D(1, <<6843, 1048, 16274, 1665>>, -54)>>,
       <<D(1, <<5997, 183, 1939, 1856>>, -53), D(1, <<6202, 7390, 727, 1731>>, -54)>>,
       <<D(1, <<14543, 11608, 11963, 1840>>, -53), D(1, <<1460, 11000, 9309, 1795>>, -54)>>,
       <<D(1, <<11379, 13556, 12801, 1824>>, -53), D(1, <<7657, 11539, 8930, 1859>>, -54)>>,
       <<D(1, <<9999, 15796, 4532, 1808>>, -53), D(1, <<4190, 4241, 15655, 1922>>, -54)>>,
       <<D(1, <<14797, 8012, 3623, 1791>>, -53), D(1, <<8406, 14270, 12782, 1985>>, -54)>>,
       <<D(1, <<3250, 8545, 10158, 1773>>, -53), D(1, <<16359, 16383, 16383, 2047>>, -54)>>,
       <<D(1, <<10980, 14811, 7841, 1755>>, -53), D(1, <<7945, 1015, 13074, 1054>>, -53)>>,
       <<D(1, <<10573, 2870, 13148, 1736>>, -53), D(1, <<7454, 15027, 4499, 1085>>, -53)>>,
       <<D(1, <<12258, 8888, 9786, 1717>>, -53), D(1, <<14099, 7617, 6893, 1115>>, -53)>>,
       <<D(1, <<11948, 13987, 14236, 1697>>, -53), D(1, <<15623, 4167, 3720, 1145>>, -53)>>,
       <<D(1, <<1872, 9302, 10213, 1677>>, -53), D(1, <<2412, 8689, 11215, 1174>>, -53)>>,
       <<D(1, <<13488, 11871, 14201, 1656>>, -53), D(1, <<6739, 4565, 12848, 1203>>, -53)>>,
       <<D(1, <<14877, 14985, 9920, 1635>>, -53), D(1, <<16042, 4438, 8473, 1232>>, -53)>>,
       <<D(1, <<9177, 4049, 13861, 1613>>, -53), D(1, <<2351, 1783, 14331, 1260>>, -53)>>,
       <<D(1, <<9009, 5206, 9747, 1591>>, -53), D(1, <<15026, 4385, 13896, 1288>>, -53)>>,
       <<D(1, <<4161, 2877, 14074, 1568>>, -53), D(1, <<5651, 2288, 7029, 1316>>, -53)>>,
       <<D(1, <<7232, 4740, 10571, 1545>>, -53), D(1, <<4041, 1249, 9976, 1343>>, -53)>>,
       <<D(1, <<16077, 8398, 15738, 1521>>, -53), D(1, <<3020, 7048, 6217, 1370>>, -53)>>,
       <<D(1, <<10636, 801, 13310, 1497>>, -53), D(1, <<7201, 9778, 12003, 1396>>, -53)>>,
       <<D(1, <<3395, 6805, 3406, 1473>>, -53), D(1, <<13061, 897, 10819, 1422>>, -53)>>,
       <<D(1, <<15318, 6652, 2534, 1448>>, -53), D(1, <<15299, 6652, 2534, 1448>>, -53)>>,
       <<D(1, <<13083, 897, 10819, 1422>>, -53), D(1, <<3374, 6805, 3406, 1473>>, -53)>>,
       <<D(1, <<7221, 9778, 12003, 1396>>, -53), D(1, <<10617, 801, 13310, 1497>>, -53)>>,
       <<D(1, <<3043, 7048, 6217, 1370>>, -53), D(1, <<16056, 8398, 15738, 1521>>, -53)>>,
       <<D(1, <<4065, 1249, 9976, 1343>>, -53), D(1, <<7212, 4740, 10571, 1545>>, -53)>>,
       <<D(1, <<5675, 2288, 7029, 1316>>, -53), D(1, <<4141, 2877, 14074, 1568>>, -53)>>,
       <<D(1, <<15047, 4385, 13896, 1288>>, -53), D(1, <<8992, 5206, 9747, 1591>>, -53)>>,
       <<D(1, <<2372, 1783, 14331, 1260>>, -53), D(1, <<9161, 4049, 13861, 1613>>, -53)>>,
       <<D(1, <<16067, 4438, 8473, 1232>>, -53), D(1, <<14859, 14985, 9920, 1635>>, -53)>>,
       <<D(1, <<6764, 4565, 12848, 1203>>, -53), D(1, <<13470, 11871, 14201, 1656>>, -53)>>,
       <<D(1, <<2440, 8689, 11215, 1174>>, -53), D(1, <<1852, 9302, 10213, 1677>>, -53)>>,
       <<D(1, <<15645, 4167, 3720, 1145>>, -53), D(1, <<11933, 13987, 14236, 1697>>, -53)>>,
       <<D(1, <<14121, 7617, 6893, 1115>>, -53), D(1, <<12244, 8888, 9786, 1717>>, -53)>>,
       <<D(1, <<7481, 15027, 4499, 1085>>, -53), D(1, <<10556, 2870, 13148, 1736>>, -53)>>,
       <<D(1, <<7971, 1015, 13074, 1054>>, -53), D(1, <<10964, 14811, 7841, 1755>>, -53)>>,
       <<D(1, <<11, 0, 0, 1024>>, -53), D(1, <<3236, 8545, 10158, 1773>>, -53)>>,
       <<D(1, <<8453, 14270, 12782, 1985>>, -54), D(1, <<14784, 8012, 3623, 1791>>, -53)>>,
       <<D(1, <<4244, 4241, 15655, 1922>>, -54), D(1, <<9984, 15796, 4532, 1808>>, -53)>>,
       <<D(1, <<7712, 11539, 8930, 1859>>, -54), D(1, <<11365, 13556, 12801, 1824>>, -53)>>,
       <<D(1, <<1515, 11000, 9309, 1795>>, -54), D(1, <<14529, 11608, 11963, 1840>>, -53)>>,
       <<D(1, <<6251, 7390, 727, 1731>>, -54), D(1, <<5986, 183, 1939, 1856>>, -53)>>,
       <<D(1, <<6892, 1048, 16274, 1665>>, -54), D(1, <<16271, 15357, 15418, 1870>>, -53)>>,
       <<D(1, <<16329, 2659, 7122, 1600>>, -54), D(1, <<9832, 8369, 3177, 1885>>, -53)>>,
       <<D(1, <<5796, 15254, 6366, 1534>>, -54), D(1, <<2897, 9823, 14295, 1898>>, -53)>>,
       <<D(1, <<4962, 16187, 14337, 1467>>, -54), D(1, <<14334, 15358, 15936, 1911>>, -53)>>,
       <<D(1, <<3088, 4648, 14983, 1400>>, -54), D(1, <<11543, 2376, 8036, 1924>>, -53)>>,
       <<D(1, <<3577, 3, 8637, 1333>>, -54), D(1, <<13510, 12282, 6914, 1936>>, -53)>>,
       <<D(1, <<10609, 7359, 12019, 1265>>, -54), D(1, <<5370, 3345, 12513, 1947>>, -53)>>,
       <<D(1, <<5612, 15887, 9084, 1197>>, -54), D(1, <<6938, 14831, 8390, 1958>>, -53)>>,
       <<D(1, <<3651, 13514, 173, 1129>>, -54), D(1, <<15228, 3449, 10878, 1968>>, -53)>>,
       <<D(1, <<1709, 1612, 2012, 1060>>, -54), D(1, <<16145, 7458, 3540, 1978>>, -53)>>,
       <<D(1, <<14685, 2962, 13503, 1981>>, -55), D(1, <<14881, 15846, 2713, 1987>>, -53)>>,
       <<D(1, <<1725, 6967, 13091, 1842>>, -55), D(1, <<1803, 1338, 8354, 1995>>, -53)>>,
       <<D(1, <<6469, 12553, 3482, 1703>>, -55), D(1, <<123, 2536, 4035, 2003>>, -53)>>,
       <<D(1, <<8838, 13785, 1757, 1563>>, -55), D(1, <<14015, 9442, 6102, 2010>>, -53)>>,
       <<D(1, <<13256, 14381, 8615, 1422>>, -55), D(1, <<7189, 12804, 14520, 2016>>, -53)>>,
       <<D(1, <<5051, 7841, 8374, 1281>>, -55), D(1, <<9305, 4287, 12873, 2022>>, -53)>>,
       <<D(1, <<7782, 6710, 1737, 1140>>, -55), D(1, <<5239, 9410, 1130, 2028>>, -53)>>,
       <<D(1, <<9020, 12605, 11588, 1996>>, -56), D(1, <<16010, 5768, 12034, 2032>>, -53)>>,
       <<D(1, <<6115, 11505, 9737, 1712>>, -56), D(1, <<10181, 5089, 12793, 2036>>, -53)>>,
       <<D(1, <<392, 8970, 15723, 1427>>, -56), D(1, <<5536, 4192, 3387, 2040>>, -53)>>,
       <<D(1, <<4540, 13737, 14582, 1142>>, -56), D(1, <<16373, 1475, 183, 2043>>, -53)>>,
       <<D(1, <<2642, 9151, 15476, 1714>>, -57), D(1, <<9756, 13387, 3166, 2045>>, -53)>>,
       <<D(1, <<7433, 10207, 9612, 1143>>, -57), D(1, <<1382, 8956, 12327, 2046>>, -53)>>,
       <<D(1, <<7962, 11815, 12466, 1143>>, -58), D(1, <<12169, 8150, 11273, 2047>>, -53)>>,
       <<D(1, <<10401, 4903, 14649, 1129>>, -101), D(1, <<0, 0, 0, 1024>>, -52)>>,
       <<D(0, <<6832, 11815, 12466, 1143>>, -58), D(1, <<12170, 8150, 11273, 2047>>, -53)>>,
       <<D(0, <<6868, 10207, 9612, 1143>>, -57), D(1, <<1383, 8956, 12327, 2046>>, -53)>>,
       <<D(0, <<2078, 9151, 15476, 1714>>, -57), D(1, <<9758, 13387, 3166, 2045>>, -53)>>,
       <<D(0, <<4258, 13737, 14582, 1142>>, -56), D(1, <<16376, 1475, 183, 2043>>, -53)>>,
       <<D(0, <<111, 8970, 15723, 1427>>, -56), D(1, <<5540, 4192, 3387, 2040>>, -53)>>,
       <<D(0, <<5834, 11505, 9737, 1712>>, -56), D(1, <<10185, 5089, 12793, 2036>>, -53)>>,
       <<D(0, <<8803, 12605, 11588, 1996>>, -56), D(1, <<16013, 5768, 12034, 2032>>, -53)>>,
       <<D(0, <<7642, 6710, 1737, 1140>>, -55), D(1, <<5244, 9410, 1130, 2028>>, -53)>>,
       <<D(0, <<4911, 7841, 8374, 1281>>, -55), D(1, <<9310, 4287, 12873, 2022>>, -53)>>,
       <<D(0, <<13117, 14381, 8615, 1422>>, -55), D(1, <<7195, 12804, 14520, 2016>>, -53)>>,
       <<D(0, <<8700, 13785, 1757, 1563>>, -55), D(1, <<14022, 9442, 6102, 2010>>, -53)>>,
       <<D(0, <<6331, 12553, 3482, 1703>>, -55), D(1, <<131, 2536, 4035, 2003>>, -53)>>,
       <<D(0, <<1587, 6967, 13091, 1842>>, -55), D(1, <<1811, 1338, 8354, 1995>>, -53)>>,
       <<D(0, <<14548, 2962, 13503, 1981>>, -55), D(1, <<14890, 15846, 2713, 1987>>, -53)>>,
       <<D(0, <<1641, 1612, 2012, 1060>>, -54), D(1, <<16154, 7458, 3540, 1978>>, -53)>>,
       <<D(0, <<3583, 13514, 173, 1129>>, -54), D(1, <<15238, 3449, 10878, 1968>>, -53)>>,
       <<D(0, <<5545, 15887, 9084, 1197>>, -54), D(1, <<6948, 14831, 8390, 1958>>, -53)>>,
       <<D(0, <<10542, 7359, 12019, 1265>>, -54), D(1, <<5381, 3345, 12513, 1947>>, -53)>>,
       <<D(0, <<3510, 3, 8637, 1333>>, -54), D(1, <<13521, 12282, 6914, 1936>>, -53)>>,
       <<D(0, <<3021, 4648, 14983, 1400>>, -54), D(1, <<11555, 2376, 8036, 1924>>, -53)>>,
       <<D(0, <<4896, 16187, 14337, 1467>>, -54), D(1, <<14346, 15358, 15936, 1911>>, -53)>>,
       <<D(0, <<5730, 15254, 6366, 1534>>, -54), D(1, <<2910, 9823, 14295, 1898>>, -53)>>,
       <<D(0, <<16264, 2659, 7122, 1600>>, -54), D(1, <<9846, 8369, 3177, 1885>>, -53)>>,
       <<D(0, <<6828, 1048, 16274, 1665>>, -54), D(1, <<16286, 15357, 15418, 1870>>, -53)>>,
       <<D(0, <<6187, 7390, 727, 1731>>, -54), D(1, <<6001, 183, 1939, 1856>>, -53)>>,
       <<D(0, <<1451, 11000, 9309, 1795>>, -54), D(1, <<14545, 11608, 11963, 1840>>, -53)>>,
       <<D(0, <<7649, 11539, 8930, 1859>>, -54), D(1, <<11381, 13556, 12801, 1824>>, -53)>>,
       <<D(0, <<4182, 4241, 15655, 1922>>, -54), D(1, <<10001, 15796, 4532, 1808>>, -53)>>,
       <<D(0, <<8391, 14270, 12782, 1985>>, -54), D(1, <<14801, 8012, 3623, 1791>>, -53)>>,
       <<D(0, <<16344, 16383, 16383, 2047>>, -54), D(1, <<3254, 8545, 10158, 1773>>, -53)>>,
       <<D(0, <<7941, 1015, 13074, 1054>>, -53), D(1, <<10982, 14811, 7841, 1755>>, -53)>>,
       <<D(0, <<7451, 15027, 4499, 1085>>, -53), D(1, <<10575, 2870, 13148, 1736>>, -53)>>,
       <<D(0, <<14092, 7617, 6893, 1115>>, -53), D(1, <<12263, 8888, 9786, 1717>>, -53)>>,
       <<D(0, <<15616, 4167, 3720, 1145>>, -53), D(1, <<11953, 13987, 14236, 1697>>, -53)>>,
       <<D(0, <<2411, 8689, 11215, 1174>>, -53), D(1, <<1872, 9302, 10213, 1677>>, -53)>>,
       <<D(0, <<6735, 4565, 12848, 1203>>, -53), D(1, <<13490, 11871, 14201, 1656>>, -53)>>,
       <<D(0, <<16038, 4438, 8473, 1232>>, -53), D(1, <<14880, 14985, 9920, 1635>>, -53)>>,
       <<D(0, <<2344, 1783, 14331, 1260>>, -53), D(1, <<9183, 4049, 13861, 1613>>, -53)>>,
       <<D(0, <<15020, 4385, 13896, 1288>>, -53), D(1, <<9014, 5206, 9747, 1591>>, -53)>>,
       <<D(0, <<5648, 2288, 7029, 1316>>, -53), D(1, <<4164, 2877, 14074, 1568>>, -53)>>,
       <<D(0, <<4038, 1249, 9976, 1343>>, -53), D(1, <<7235, 4740, 10571, 1545>>, -53)>>,
       <<D(0, <<3016, 7048, 6217, 1370>>, -53), D(1, <<16080, 8398, 15738, 1521>>, -53)>>,
       <<D(0, <<7195, 9778, 12003, 1396>>, -53), D(1, <<10641, 801, 13310, 1497>>, -53)>>,
       <<D(0, <<13055, 897, 10819, 1422>>, -53), D(1, <<3401, 6805, 3406, 1473>>, -53)>>,
       <<D(0, <<15296, 6652, 2534, 1448>>, -53), D(1, <<15321, 6652, 2534, 1448>>, -53)>>,
       <<D(0, <<3371, 6805, 3406, 1473>>, -53), D(1, <<13086, 897, 10819, 1422>>, -53)>>,
       <<D(0, <<10612, 801, 13310, 1497>>, -53), D(1, <<7227, 9778, 12003, 1396>>, -53)>>,
       <<D(0, <<16050, 8398, 15738, 1521>>, -53), D(1, <<3049, 7048, 6217, 1370>>, -53)>>,
       <<D(0, <<7212, 4740, 10571, 1545>>, -53), D(1, <<4065, 1249, 9976, 1343>>, -53)>>,
       <<D(0, <<4141, 2877, 14074, 1568>>, -53), D(1, <<5675, 2288, 7029, 1316>>, -53)>>,
       <<D(0, <<8987, 5206, 9747, 1591>>, -53), D(1, <<15054, 4385, 13896, 1288>>, -53)>>,
       <<D(0, <<9156, 4049, 13861, 1613>>, -53), D(1, <<2379, 1783, 14331, 1260>>, -53)>>,
       <<D(0, <<14854, 14985, 9920, 1635>>, -53), D(1, <<16073, 4438, 8473, 1232>>, -53)>>,
       <<D(0, <<13469, 11871, 14201, 1656>>, -53), D(1, <<6764, 4565, 12848, 1203>>, -53)>>,
       <<D(0, <<1852, 9302, 10213, 1677>>, -53), D(1, <<2441, 8689, 11215, 1174>>, -53)>>,
       <<D(0, <<11929, 13987, 14236, 1697>>, -53), D(1, <<15652, 4167, 3720, 1145>>, -53)>>,
       <<D(0, <<12239, 8888, 9786, 1717>>, -53), D(1, <<14129, 7617, 6893, 1115>>, -53)>>,
       <<D(0, <<10552, 2870, 13148, 1736>>, -53), D(1, <<7488, 15027, 4499, 1085>>, -53)>>,
       <<D(0, <<10964, 14811, 7841, 1755>>, -53), D(1, <<7972, 1015, 13074, 1054>>, -53)>>,
       <<D(0, <<3232, 8545, 10158, 1773>>, -53), D(1, <<18, 0, 0, 1024>>, -53)>>,
       <<D(0, <<14780, 8012, 3623, 1791>>, -53), D(1, <<8468, 14270, 12782, 1985>>, -54)>>,
       <<D(0, <<9980, 15796, 4532, 1808>>, -53), D(1, <<4259, 4241, 15655, 1922>>, -54)>>,
       <<D(0, <<11364, 13556, 12801, 1824>>, -53), D(1, <<7713, 11539, 8930, 1859>>, -54)>>,
       <<D(0, <<14529, 11608, 11963, 1840>>, -53), D(1, <<1516, 11000, 9309, 1795>>, -54)>>,
       <<D(0, <<5982, 183, 1939, 1856>>, -53), D(1, <<6266, 7390, 727, 1731>>, -54)>>,
       <<D(0, <<16268, 15357, 15418, 1870>>, -53), D(1, <<6908, 1048, 16274, 1665>>, -54)>>,
       <<D(0, <<9829, 8369, 3177, 1885>>, -53), D(1, <<16345, 2659, 7122, 1600>>, -54)>>,
       <<D(0, <<2897, 9823, 14295, 1898>>, -53), D(1, <<5797, 15254, 6366, 1534>>, -54)>>,
       <<D(0, <<14334, 15358, 15936, 1911>>, -53), D(1, <<4963, 16187, 14337, 1467>>, -54)>>,
       <<D(0, <<11540, 2376, 8036, 1924>>, -53), D(1, <<3104, 4648, 14983, 1400>>, -54)>>,
       <<D(0, <<13507, 12282, 6914, 1936>>, -53), D(1, <<3593, 3, 8637, 1333>>, -54)>>,
       <<D(0, <<5367, 3345, 12513, 1947>>, -53), D(1, <<10625, 7359, 12019, 1265>>, -54)>>,
       <<D(0, <<6938, 14831, 8390, 1958>>, -53), D(1, <<5613, 15887, 9084, 1197>>, -54)>>,
       <<D(0, <<15226, 3449, 10878, 1968>>, -53), D(1, <<3667, 13514, 173, 1129>>, -54)>>,
       <<D(0, <<16143, 7458, 3540, 1978>>, -53), D(1, <<1726, 1612, 2012, 1060>>, -54)>>,
       <<D(0, <<14879, 15846, 2713, 1987>>, -53), D(1, <<14719, 2962, 13503, 1981>>, -55)>>,
       <<D(0, <<1803, 1338, 8354, 1995>>, -53), D(1, <<1727, 6967, 13091, 1842>>, -55)>>,
       <<D(0, <<123, 2536, 4035, 2003>>, -53), D(1, <<6471, 12553, 3482, 1703>>, -55)>>,
       <<D(0, <<14013, 9442, 6102, 2010>>, -53), D(1, <<8872, 13785, 1757, 1563>>, -55)>>,
       <<D(0, <<7187, 12804, 14520, 2016>>, -53), D(1, <<13290, 14381, 8615, 1422>>, -55)>>,
       <<D(0, <<9304, 4287, 12873, 2022>>, -53), D(1, <<5084, 7841, 8374, 1281>>, -55)>>,
       <<D(0, <<5239, 9410, 1130, 2028>>, -53), D(1, <<7784, 6710, 1737, 1140>>, -55)>>,
       <<D(0, <<16009, 5768, 12034, 2032>>, -53), D(1, <<9088, 12605, 11588, 1996>>, -56)>>,
       <<D(0, <<10180, 5089, 12793, 2036>>, -53), D(1, <<6183, 11505, 9737, 1712>>, -56)>>,
       <<D(0, <<5536, 4192, 3387, 2040>>, -53), D(1, <<460, 8970, 15723, 1427>>, -56)>>,
       <<D(0, <<16373, 1475, 183, 2043>>, -53), D(1, <<4608, 13737, 14582, 1142>>, -56)>>,
       <<D(0, <<9756, 13387, 3166, 2045>>, -53), D(1, <<2651, 9151, 15476, 1714>>, -57)>>,
       <<D(0, <<1382, 8956, 12327, 2046>>, -53), D(1, <<7569, 10207, 9612, 1143>>, -57)>>,
       <<D(0, <<12169, 8150, 11273, 2047>>, -53), D(1, <<8236, 11815, 12466, 1143>>, -58)>>,
       <<D(0, <<0, 0, 0, 1024>>, -52), D(1, <<2945, 6538, 3148, 1677>>, -101)>>,
       <<D(0, <<12170, 8150, 11273, 2047>>, -53), D(0, <<6815, 11815, 12466, 1143>>, -58)>>,
       <<D(0, <<1383, 8956, 12327, 2046>>, -53), D(0, <<6859, 10207, 9612, 1143>>, -57)>>,
       <<D(0, <<9759, 13387, 3166, 2045>>, -53), D(0, <<1941, 9151, 15476, 1714>>, -57)>>,
       <<D(0, <<16376, 1475, 183, 2043>>, -53), D(0, <<4190, 13737, 14582, 1142>>, -56)>>,
       <<D(0, <<5540, 4192, 3387, 2040>>, -53), D(0, <<42, 8970, 15723, 1427>>, -56)>>,
       <<D(0, <<10185, 5089, 12793, 2036>>, -53), D(0, <<5830, 11505, 9737, 1712>>, -56)>>,
       <<D(0, <<16014, 5768, 12034, 2032>>, -53), D(0, <<8735, 12605, 11588, 1996>>, -56)>>,
       <<D(0, <<5245, 9410, 1130, 2028>>, -53), D(0, <<7608, 6710, 1737, 1140>>, -55)>>,
       <<D(0, <<9312, 4287, 12873, 2022>>, -53), D(0, <<4877, 7841, 8374, 1281>>, -55)>>,
       <<D(0, <<7196, 12804, 14520, 2016>>, -53), D(0, <<13083, 14381, 8615, 1422>>, -55)>>,
       <<D(0, <<14022, 9442, 6102, 2010>>, -53), D(0, <<8698, 13785, 1757, 1563>>, -55)>>,
       <<D(0, <<132, 2536, 4035, 2003>>, -53), D(0, <<6297, 12553, 3482, 1703>>, -55)>>,
       <<D(0, <<1813, 1338, 8354, 1995>>, -53), D(0, <<1554, 6967, 13091, 1842>>, -55)>>,
       <<D(0, <<14892, 15846, 2713, 1987>>, -53), D(0, <<14515, 2962, 13503, 1981>>, -55)>>,
       <<D(0, <<16154, 7458, 3540, 1978>>, -53), D(0, <<1640, 1612, 2012, 1060>>, -54)>>,
       <<D(0, <<15238, 3449, 10878, 1968>>, -53), D(0, <<3582, 13514, 173, 1129>>, -54)>>,
       <<D(0, <<6951, 14831, 8390, 1958>>, -53), D(0, <<5528, 15887, 9084, 1197>>, -54)>>,
       <<D(0, <<5384, 3345, 12513, 1947>>, -53), D(0, <<10525, 7359, 12019, 1265>>, -54)>>,
       <<D(0, <<13524, 12282, 6914, 1936>>, -53), D(0, <<3494, 3, 8637, 1333>>, -54)>>,
       <<D(0, <<11555, 2376, 8036, 1924>>, -53), D(0, <<3020, 4648, 14983, 1400>>, -54)>>,
       <<D(0, <<14350, 15358, 15936, 1911>>, -53), D(0, <<4880, 16187, 14337, 1467>>, -54)>>,
       <<D(0, <<2913, 9823, 14295, 1898>>, -53), D(0, <<5714, 15254, 6366, 1534>>, -54)>>,
       <<D(0, <<9849, 8369, 3177, 1885>>, -53), D(0, <<16249, 2659, 7122, 1600>>, -54)>>,
       <<D(0, <<16289, 15357, 15418, 1870>>, -53), D(0, <<6812, 1048, 16274, 1665>>, -54)>>,
       <<D(0, <<6001, 183, 1939, 1856>>, -53), D(0, <<6186, 7390, 727, 1731>>, -54)>>,
       <<D(0, <<14548, 11608, 11963, 1840>>, -53), D(0, <<1436, 11000, 9309, 1795>>, -54)>>,
       <<D(0, <<11385, 13556, 12801, 1824>>, -53), D(0, <<7634, 11539, 8930, 1859>>, -54)>>,
       <<D(0, <<10005, 15796, 4532, 1808>>, -53), D(0, <<4167, 4241, 15655, 1922>>, -54)>>,
       <<D(0, <<14801, 8012, 3623, 1791>>, -53), D(0, <<8390, 14270, 12782, 1985>>, -54)>>,
       <<D(0, <<3254, 8545, 10158, 1773>>, -53), D(0, <<16343, 16383, 16383, 2047>>, -54)>>,
       <<D(0, <<10987, 14811, 7841, 1755>>, -53), D(0, <<7934, 1015, 13074, 1054>>, -53)>>,
       <<D(0, <<10580, 2870, 13148, 1736>>, -53), D(0, <<7443, 15027, 4499, 1085>>, -53)>>,
       <<D(0, <<12268, 8888, 9786, 1717>>, -53), D(0, <<14085, 7617, 6893, 1115>>, -53)>>,
       <<D(0, <<11953, 13987, 14236, 1697>>, -53), D(0, <<15615, 4167, 3720, 1145>>, -53)>>,
       <<D(0, <<1877, 9302, 10213, 1677>>, -53), D(0, <<2404, 8689, 11215, 1174>>, -53)>>,
       <<D(0, <<13495, 11871, 14201, 1656>>, -53), D(0, <<6729, 4565, 12848, 1203>>, -53)>>,
       <<D(0, <<14885, 14985, 9920, 1635>>, -53), D(0, <<16032, 4438, 8473, 1232>>, -53)>>,
       <<D(0, <<9183, 4049, 13861, 1613>>, -53), D(0, <<2344, 1783, 14331, 1260>>, -53)>>,
       <<D(0, <<9015, 5206, 9747, 1591>>, -53), D(0, <<15019, 4385, 13896, 1288>>, -53)>>,
       <<D(0, <<4170, 2877, 14074, 1568>>, -53), D(0, <<5641, 2288, 7029, 1316>>, -53)>>,
       <<D(0, <<7241, 4740, 10571, 1545>>, -53), D(0, <<4031, 1249, 9976, 1343>>, -53)>>,
       <<D(0, <<16085, 8398, 15738, 1521>>, -53), D(0, <<3010, 7048, 6217, 1370>>, -53)>>,
       <<D(0, <<10642, 801, 13310, 1497>>, -53), D(0, <<7194, 9778, 12003, 1396>>, -53)>>,
       <<D(0, <<3402, 6805, 3406, 1473>>, -53), D(0, <<13055, 897, 10819, 1422>>, -53)>>,
       <<D(0, <<15327, 6652, 2534, 1448>>, -53), D(0, <<15290, 6652, 2534, 1448>>, -53)>>,
       <<D(0, <<13093, 897, 10819, 1422>>, -53), D(0, <<3365, 6805, 3406, 1473>>, -53)>>,
       <<D(0, <<7233, 9778, 12003, 1396>>, -53), D(0, <<10606, 801, 13310, 1497>>, -53)>>,
       <<D(0, <<3049, 7048, 6217, 1370>>, -53), D(0, <<16050, 8398, 15738, 1521>>, -53)>>,
       <<D(0, <<4071, 1249, 9976, 1343>>, -53), D(0, <<7206, 4740, 10571, 1545>>, -53)>>,
       <<D(0, <<5682, 2288, 7029, 1316>>, -53), D(0, <<4136, 2877, 14074, 1568>>, -53)>>,
       <<D(0, <<15060, 4385, 13896, 1288>>, -53), D(0, <<8981, 5206, 9747, 1591>>, -53)>>,
       <<D(0, <<2379, 1783, 14331, 1260>>, -53), D(0, <<9155, 4049, 13861, 1613>>, -53)>>,
       <<D(0, <<16074, 4438, 8473, 1232>>, -53), D(0, <<14853, 14985, 9920, 1635>>, -53)>>,
       <<D(0, <<6771, 4565, 12848, 1203>>, -53), D(0, <<13464, 11871, 14201, 1656>>, -53)>>,
       <<D(0, <<2448, 8689, 11215, 1174>>, -53), D(0, <<1847, 9302, 10213, 1677>>, -53)>>,
       <<D(0, <<15659, 4167, 3720, 1145>>, -53), D(0, <<11924, 13987, 14236, 1697>>, -53)>>,
       <<D(0, <<14129, 7617, 6893, 1115>>, -53), D(0, <<12239, 8888, 9786, 1717>>, -53)>>,
       <<D(0, <<7488, 15027, 4499, 1085>>, -53), D(0, <<10552, 2870, 13148, 1736>>, -53)>>,
       <<D(0, <<7979, 1015, 13074, 1054>>, -53), D(0, <<10959, 14811, 7841, 1755>>, -53)>>,
       <<D(0, <<25, 0, 0, 1024>>, -53), D(0, <<3228, 8545, 10158, 1773>>, -53)>>,
       <<D(0, <<8483, 14270, 12782, 1985>>, -54), D(0, <<14775, 8012, 3623, 1791>>, -53)>>,
       <<D(0, <<4260, 4241, 15655, 1922>>, -54), D(0, <<9980, 15796, 4532, 1808>>, -53)>>,
       <<D(0, <<7728, 11539, 8930, 1859>>, -54), D(0, <<11361, 13556, 12801, 1824>>, -53)>>,
       <<D(0, <<1531, 11000, 9309, 1795>>, -54), D(0, <<14525, 11608, 11963, 1840>>, -53)>>,
       <<D(0, <<6282, 7390, 727, 1731>>, -54), D(0, <<5978, 183, 1939, 1856>>, -53)>>,
       <<D(0, <<6909, 1048, 16274, 1665>>, -54), D(0, <<16268, 15357, 15418, 1870>>, -53)>>,
       <<D(0, <<16346, 2659, 7122, 1600>>, -54), D(0, <<9829, 8369, 3177, 1885>>, -53)>>,
       <<D(0, <<5812, 15254, 6366, 1534>>, -54), D(0, <<2893, 9823, 14295, 1898>>, -53)>>,
       <<D(0, <<4979, 16187, 14337, 1467>>, -54), D(0, <<14331, 15358, 15936, 1911>>, -53)>>,
       <<D(0, <<3120, 4648, 14983, 1400>>, -54), D(0, <<11537, 2376, 8036, 1924>>, -53)>>,
       <<D(0, <<3594, 3, 8637, 1333>>, -54), D(0, <<13507, 12282, 6914, 1936>>, -53)>>,
       <<D(0, <<10626, 7359, 12019, 1265>>, -54), D(0, <<5367, 3345, 12513, 1947>>, -53)>>,
       <<D(0, <<5630, 15887, 9084, 1197>>, -54), D(0, <<6935, 14831, 8390, 1958>>, -53)>>,
       <<D(0, <<3683, 13514, 173, 1129>>, -54), D(0, <<15223, 3449, 10878, 1968>>, -53)>>,
       <<D(0, <<1742, 1612, 2012, 1060>>, -54), D(0, <<16140, 7458, 3540, 1978>>, -53)>>,
       <<D(0, <<14721, 2962, 13503, 1981>>, -55), D(0, <<14879, 15846, 2713, 1987>>, -53)>>,
       <<D(0, <<1760, 6967, 13091, 1842>>, -55), D(0, <<1801, 1338, 8354, 1995>>, -53)>>,
       <<D(0, <<6505, 12553, 3482, 1703>>, -55), D(0, <<121, 2536, 4035, 2003>>, -53)>>,
       <<D(0, <<8906, 13785, 1757, 1563>>, -55), D(0, <<14012, 9442, 6102, 2010>>, -53)>>,
       <<D(0, <<13292, 14381, 8615, 1422>>, -55), D(0, <<7187, 12804, 14520, 2016>>, -53)>>,
       <<D(0, <<5086, 7841, 8374, 1281>>, -55), D(0, <<9303, 4287, 12873, 2022>>, -53)>>,
       <<D(0, <<7818, 6710, 1737, 1140>>, -55), D(0, <<5238, 9410, 1130, 2028>>, -53)>>,
       <<D(0, <<9156, 12605, 11588, 1996>>, -56), D(0, <<16008, 5768, 12034, 2032>>, -53)>>,
       <<D(0, <<6251, 11505, 9737, 1712>>, -56), D(0, <<10179, 5089, 12793, 2036>>, -53)>>,
       <<D(0, <<464, 8970, 15723, 1427>>, -56), D(0, <<5536, 4192, 3387, 2040>>, -53)>>,
       <<D(0, <<4612, 13737, 14582, 1142>>, -56), D(0, <<16373, 1475, 183, 2043>>, -53)>>,
       <<D(0, <<2788, 9151, 15476, 1714>>, -57), D(0, <<9756, 13387, 3166, 2045>>, -53)>>,
       <<D(0, <<7706, 10207, 9612, 1143>>, -57), D(0, <<1382, 8956, 12327, 2046>>, -53)>>,
       <<D(0, <<8509, 11815, 12466, 1143>>, -58), D(0, <<12169, 8150, 11273, 2047>>, -53)>>,
       <<D(0, <<11873, 8172, 8031, 1712>>, -101), D(0, <<0, 0, 0, 1024>>, -52)>>,
       <<D(1, <<6541, 11815, 12466, 1143>>, -58), D(0, <<12170, 8150, 11273, 2047>>, -53)>>,
       <<D(1, <<6722, 10207, 9612, 1143>>, -57), D(0, <<1384, 8956, 12327, 2046>>, -53)>>,
       <<D(1, <<1805, 9151, 15476, 1714>>, -57), D(0, <<9759, 13387, 3166, 2045>>, -53)>>,
       <<D(1, <<4185, 13737, 14582, 1142>>, -56), D(0, <<16376, 1475, 183, 2043>>, -53)>>,
       <<D(1, <<38, 8970, 15723, 1427>>, -56), D(0, <<5540, 4192, 3387, 2040>>, -53)>>,
       <<D(1, <<5762, 11505, 9737, 1712>>, -56), D(0, <<10186, 5089, 12793, 2036>>, -53)>>,
       <<D(1, <<8667, 12605, 11588, 1996>>, -56), D(0, <<16015, 5768, 12034, 2032>>, -53)>>,
       <<D(1, <<7574, 6710, 1737, 1140>>, -55), D(0, <<5246, 9410, 1130, 2028>>, -53)>>,
       <<D(1, <<4875, 7841, 8374, 1281>>, -55), D(0, <<9312, 4287, 12873, 2022>>, -53)>>,
       <<D(1, <<13049, 14381, 8615, 1422>>, -55), D(0, <<7198, 12804, 14520, 2016>>, -53)>>,
       <<D(1, <<8664, 13785, 1757, 1563>>, -55), D(0, <<14024, 9442, 6102, 2010>>, -53)>>,
       <<D(1, <<6295, 12553, 3482, 1703>>, -55), D(0, <<133, 2536, 4035, 2003>>, -53)>>,
       <<D(1, <<1520, 6967, 13091, 1842>>, -55), D(0, <<1814, 1338, 8354, 1995>>, -53)>>,
       <<D(1, <<14513, 2962, 13503, 1981>>, -55), D(0, <<14892, 15846, 2713, 1987>>, -53)>>,
       <<D(1, <<1608, 1612, 2012, 1060>>, -54), D(0, <<16158, 7458, 3540, 1978>>, -53)>>,
       <<D(1, <<3565, 13514, 173, 1129>>, -54), D(0, <<15240, 3449, 10878, 1968>>, -53)>>,
       <<D(1, <<5527, 15887, 9084, 1197>>, -54), D(0, <<6951, 14831, 8390, 1958>>, -53)>>,
       <<D(1, <<10509, 7359, 12019, 1265>>, -54), D(0, <<5386, 3345, 12513, 1947>>, -53)>>,
       <<D(1, <<3493, 3, 8637, 1333>>, -54), D(0, <<13524, 12282, 6914, 1936>>, -53)>>,
       <<D(1, <<2989, 4648, 14983, 1400>>, -54), D(0, <<11561, 2376, 8036, 1924>>, -53)>>,
       <<D(1, <<4864, 16187, 14337, 1467>>, -54), D(0, <<14353, 15358, 15936, 1911>>, -53)>>,
       <<D(1, <<5713, 15254, 6366, 1534>>, -54), D(0, <<2914, 9823, 14295, 1898>>, -53)>>,
       <<D(1, <<16233, 2659, 7122, 1600>>, -54), D(0, <<9853, 8369, 3177, 1885>>, -53)>>,
       <<D(1, <<6811, 1048, 16274, 1665>>, -54), D(0, <<16289, 15357, 15418, 1870>>, -53)>>,
       <<D(1, <<6185, 7390, 727, 1731>>, -54), D(0, <<6001, 183, 1939, 1856>>, -53)>>,
       <<D(1, <<1421, 11000, 9309, 1795>>, -54), D(0, <<14552, 11608, 11963, 1840>>, -53)>>,
       <<D(1, <<7633, 11539, 8930, 1859>>, -54), D(0, <<11385, 13556, 12801, 1824>>, -53)>>,
       <<D(1, <<4152, 4241, 15655, 1922>>, -54), D(0, <<10009, 15796, 4532, 1808>>, -53)>>,
       <<D(1, <<8375, 14270, 12782, 1985>>, -54), D(0, <<14805, 8012, 3623, 1791>>, -53)>>,
       <<D(1, <<16342, 16383, 16383, 2047>>, -54), D(0, <<3255, 8545, 10158, 1773>>, -53)>>,
       <<D(1, <<7926, 1015, 13074, 1054>>, -53), D(0, <<10991, 14811, 7841, 1755>>, -53)>>,
       <<D(1, <<7443, 15027, 4499, 1085>>, -53), D(0, <<10580, 2870, 13148, 1736>>, -53)>>,
       <<D(1, <<14077, 7617, 6893, 1115>>, -53), D(0, <<12272, 8888, 9786, 1717>>, -53)>>,
       <<D(1, <<15608, 4167, 3720, 1145>>, -53), D(0, <<11958, 13987, 14236, 1697>>, -53)>>,
       <<D(1, <<2404, 8689, 11215, 1174>>, -53), D(0, <<1877, 9302, 10213, 1677>>, -53)>>,
       <<D(1, <<6722, 4565, 12848, 1203>>, -53), D(0, <<13500, 11871, 14201, 1656>>, -53)>>,
       <<D(1, <<16031, 4438, 8473, 1232>>, -53), D(0, <<14885, 14985, 9920, 1635>>, -53)>>,
       <<D(1, <<2331, 1783, 14331, 1260>>, -53), D(0, <<9193, 4049, 13861, 1613>>, -53)>>,
       <<D(1, <<15012, 4385, 13896, 1288>>, -53), D(0, <<9020, 5206, 9747, 1591>>, -53)>>,
       <<D(1, <<5641, 2288, 7029, 1316>>, -53), D(0, <<4170, 2877, 14074, 1568>>, -53)>>,
       <<D(1, <<4025, 1249, 9976, 1343>>, -53), D(0, <<7246, 4740, 10571, 1545>>, -53)>>,
       <<D(1, <<3010, 7048, 6217, 1370>>, -53), D(0, <<16086, 8398, 15738, 1521>>, -53)>>,
       <<D(1, <<7182, 9778, 12003, 1396>>, -53), D(0, <<10653, 801, 13310, 1497>>, -53)>>,
       <<D(1, <<13048, 897, 10819, 1422>>, -53), D(0, <<3408, 6805, 3406, 1473>>, -53)>>,
       <<D(1, <<15289, 6652, 2534, 1448>>, -53), D(0, <<15328, 6652, 2534, 1448>>, -53)>>,
       <<D(1, <<3359, 6805, 3406, 1473>>, -53), D(0, <<13099, 897, 10819, 1422>>, -53)>>,
       <<D(1, <<10605, 801, 13310, 1497>>, -53), D(0, <<7234, 9778, 12003, 1396>>, -53)>>,
       <<D(1, <<16039, 8398, 15738, 1521>>, -53), D(0, <<3062, 7048, 6217, 1370>>, -53)>>,
       <<D(1, <<7200, 4740, 10571, 1545>>, -53), D(0, <<4078, 1249, 9976, 1343>>, -53)>>,
       <<D(1, <<4135, 2877, 14074, 1568>>, -53), D(0, <<5682, 2288, 7029, 1316>>, -53)>>,
       <<D(1, <<8976, 5206, 9747, 1591>>, -53), D(0, <<15067, 4385, 13896, 1288>>, -53)>>,
       <<D(1, <<9150, 4049, 13861, 1613>>, -53), D(0, <<2386, 1783, 14331, 1260>>, -53)>>,
       <<D(1, <<14853, 14985, 9920, 1635>>, -53), D(0, <<16074, 4438, 8473, 1232>>, -53)>>,
       <<D(1, <<13459, 11871, 14201, 1656>>, -53), D(0, <<6778, 4565, 12848, 1203>>, -53)>>,
       <<D(1, <<1846, 9302, 10213, 1677>>, -53), D(0, <<2448, 8689, 11215, 1174>>, -53)>>,
       <<D(1, <<11919, 13987, 14236, 1697>>, -53), D(0, <<15666, 4167, 3720, 1145>>, -53)>>,
       <<D(1, <<12234, 8888, 9786, 1717>>, -53), D(0, <<14136, 7617, 6893, 1115>>, -53)>>,
       <<D(1, <<10551, 2870, 13148, 1736>>, -53), D(0, <<7489, 15027, 4499, 1085>>, -53)>>,
       <<D(1, <<10955, 14811, 7841, 1755>>, -53), D(0, <<7986, 1015, 13074, 1054>>, -53)>>,
       <<D(1, <<3228, 8545, 10158, 1773>>, -53), D(0, <<26, 0, 0, 1024>>, -53)>>,
       <<D(1, <<14771, 8012, 3623, 1791>>, -53), D(0, <<8498, 14270, 12782, 1985>>, -54)>>,
       <<D(1, <<9976, 15796, 4532, 1808>>, -53), D(0, <<4275, 4241, 15655, 1922>>, -54)>>,
       <<D(1, <<11360, 13556, 12801, 1824>>, -53), D(0, <<7729, 11539, 8930, 1859>>, -54)>>,
       <<D(1, <<14521, 11608, 11963, 1840>>, -53), D(0, <<1547, 11000, 9309, 1795>>, -54)>>,
       <<D(1, <<5978, 183, 1939, 1856>>, -53), D(0, <<6283, 7390, 727, 1731>>, -54)>>,
       <<D(1, <<16261, 15357, 15418, 1870>>, -53), D(0, <<6939, 1048, 16274, 1665>>, -54)>>,
       <<D(1, <<9825, 8369, 3177, 1885>>, -53), D(0, <<16362, 2659, 7122, 1600>>, -54)>>,
       <<D(1, <<2893, 9823, 14295, 1898>>, -53), D(0, <<5813, 15254, 6366, 1534>>, -54)>>,
       <<D(1, <<14327, 15358, 15936, 1911>>, -53), D(0, <<4995, 16187, 14337, 1467>>, -54)>>,
       <<D(1, <<11537, 2376, 8036, 1924>>, -53), D(0, <<3121, 4648, 14983, 1400>>, -54)>>,
       <<D(1, <<13501, 12282, 6914, 1936>>, -53), D(0, <<3626, 3, 8637, 1333>>, -54)>>,
       <<D(1, <<5364, 3345, 12513, 1947>>, -53), D(0, <<10642, 7359, 12019, 1265>>, -54)>>,
       <<D(1, <<6935, 14831, 8390, 1958>>, -53), D(0, <<5631, 15887, 9084, 1197>>, -54)>>,
       <<D(1, <<15221, 3449, 10878, 1968>>, -53), D(0, <<3700, 13514, 173, 1129>>, -54)>>,
       <<D(1, <<16140, 7458, 3540, 1978>>, -53), D(0, <<1743, 1612, 2012, 1060>>, -54)>>,
       <<D(1, <<14879, 15846, 2713, 1987>>, -53), D(0, <<14723, 2962, 13503, 1981>>, -55)>>,
       <<D(1, <<1799, 1338, 8354, 1995>>, -53), D(0, <<1794, 6967, 13091, 1842>>, -55)>>,
       <<D(1, <<121, 2536, 4035, 2003>>, -53), D(0, <<6507, 12553, 3482, 1703>>, -55)>>,
       <<D(1, <<14010, 9442, 6102, 2010>>, -53), D(0, <<8939, 13785, 1757, 1563>>, -55)>>,
       <<D(1, <<7186, 12804, 14520, 2016>>, -53), D(0, <<13325, 14381, 8615, 1422>>, -55)>>,
       <<D(1, <<9303, 4287, 12873, 2022>>, -53), D(0, <<5089, 7841, 8374, 1281>>, -55)>>,
       <<D(1, <<5236, 9410, 1130, 2028>>, -53), D(0, <<7852, 6710, 1737, 1140>>, -55)>>,
       <<D(1, <<16008, 5768, 12034, 2032>>, -53), D(0, <<9160, 12605, 11588, 1996>>, -56)>>,
       <<D(1, <<10178, 5089, 12793, 2036>>, -53), D(0, <<6319, 11505, 9737, 1712>>, -56)>>,
       <<D(1, <<5535, 4192, 3387, 2040>>, -53), D(0, <<533, 8970, 15723, 1427>>, -56)>>,
       <<D(1, <<16372, 1475, 183, 2043>>, -53), D(0, <<4617, 13737, 14582, 1142>>, -56)>>,
       <<D(1, <<9755, 13387, 3166, 2045>>, -53), D(0, <<2924, 9151, 15476, 1714>>, -57)>>,
       <<D(1, <<1382, 8956, 12327, 2046>>, -53), D(0, <<7715, 10207, 9612, 1143>>, -57)>>,
       <<D(1, <<12169, 8150, 11273, 2047>>, -53), D(0, <<8783, 11815, 12466, 1143>>, -58)>>,
       <<D(1, <<0, 0, 0, 1024>>, -52), D(0, <<10401, 4903, 14649, 1129>>, -100)>>,
       <<D(1, <<12170, 8150, 11273, 2047>>, -53), D(1, <<6523, 11815, 12466, 1143>>, -58)>>,
       <<D(1, <<1384, 8956, 12327, 2046>>, -53), D(1, <<6586, 10207, 9612, 1143>>, -57)>>,
       <<D(1, <<9759, 13387, 3166, 2045>>, -53), D(1, <<1796, 9151, 15476, 1714>>, -57)>>,
       <<D(1, <<16377, 1475, 183, 2043>>, -53), D(1, <<4053, 13737, 14582, 1142>>, -56)>>,
       <<D(1, <<5541, 4192, 3387, 2040>>, -53), D(1, <<16354, 8969, 15723, 1427>>, -56)>>,
       <<D(1, <<10186, 5089, 12793, 2036>>, -53), D(1, <<5757, 11505, 9737, 1712>>, -56)>>,
       <<D(1, <<16016, 5768, 12034, 2032>>, -53), D(1, <<8599, 12605, 11588, 1996>>, -56)>>,
       <<D(1, <<5246, 9410, 1130, 2028>>, -53), D(1, <<7572, 6710, 1737, 1140>>, -55)>>,
       <<D(1, <<9314, 4287, 12873, 2022>>, -53), D(1, <<4810, 7841, 8374, 1281>>, -55)>>,
       <<D(1, <<7198, 12804, 14520, 2016>>, -53), D(1, <<13047, 14381, 8615, 1422>>, -55)>>,
       <<D(1, <<14024, 9442, 6102, 2010>>, -53), D(1, <<8662, 13785, 1757, 1563>>, -55)>>,
       <<D(1, <<136, 2536, 4035, 2003>>, -53), D(1, <<6230, 12553, 3482, 1703>>, -55)>>,
       <<D(1, <<1815, 1338, 8354, 1995>>, -53), D(1, <<1518, 6967, 13091, 1842>>, -55)>>,
       <<D(1, <<14892, 15846, 2713, 1987>>, -53), D(1, <<14511, 2962, 13503, 1981>>, -55)>>,
       <<D(1, <<16159, 7458, 3540, 1978>>, -53), D(1, <<1607, 1612, 2012, 1060>>, -54)>>,
       <<D(1, <<15240, 3449, 10878, 1968>>, -53), D(1, <<3564, 13514, 173, 1129>>, -54)>>,
       <<D(1, <<6956, 14831, 8390, 1958>>, -53), D(1, <<5496, 15887, 9084, 1197>>, -54)>>,
       <<D(1, <<5386, 3345, 12513, 1947>>, -53), D(1, <<10508, 7359, 12019, 1265>>, -54)>>,
       <<D(1, <<13524, 12282, 6914, 1936>>, -53), D(1, <<3492, 3, 8637, 1333>>, -54)>>,
       <<D(1, <<11561, 2376, 8036, 1924>>, -53), D(1, <<2988, 4648, 14983, 1400>>, -54)>>,
       <<D(1, <<14353, 15358, 15936, 1911>>, -53), D(1, <<4863, 16187, 14337, 1467>>, -54)>>,
       <<D(1, <<2920, 9823, 14295, 1898>>, -53), D(1, <<5682, 15254, 6366, 1534>>, -54)>>,
       <<D(1, <<9853, 8369, 3177, 1885>>, -53), D(1, <<16232, 2659, 7122, 1600>>, -54)>>,
       <<D(1, <<16290, 15357, 15418, 1870>>, -53), D(1, <<6810, 1048, 16274, 1665>>, -54)>>,
       <<D(1, <<6008, 183, 1939, 1856>>, -53), D(1, <<6155, 7390, 727, 1731>>, -54)>>,
       <<D(1, <<14552, 11608, 11963, 1840>>, -53), D(1, <<1420, 11000, 9309, 1795>>, -54)>>,
       <<D(1, <<11392, 13556, 12801, 1824>>, -53), D(1, <<7603, 11539, 8930, 1859>>, -54)>>,
       <<D(1, <<10009, 15796, 4532, 1808>>, -53), D(1, <<4151, 4241, 15655, 1922>>, -54)>>,
       <<D(1, <<14806, 8012, 3623, 1791>>, -53), D(1, <<8374, 14270, 12782, 1985>>, -54)>>,
       <<D(1, <<3263, 8545, 10158, 1773>>, -53), D(1, <<16313, 16383, 16383, 2047>>, -54)>>,
       <<D(1, <<10991, 14811, 7841, 1755>>, -53), D(1, <<7926, 1015, 13074, 1054>>, -53)>>,
       <<D(1, <<10589, 2870, 13148, 1736>>, -53), D(1, <<7429, 15027, 4499, 1085>>, -53)>>,
       <<D(1, <<12273, 8888, 9786, 1717>>, -53), D(1, <<14077, 7617, 6893, 1115>>, -53)>>,
       <<D(1, <<11958, 13987, 14236, 1697>>, -53), D(1, <<15608, 4167, 3720, 1145>>, -53)>>,
       <<D(1, <<1887, 9302, 10213, 1677>>, -53), D(1, <<2390, 8689, 11215, 1174>>, -53)>>,
       <<D(1, <<13501, 11871, 14201, 1656>>, -53), D(1, <<6721, 4565, 12848, 1203>>, -53)>>,
       <<D(1, <<14895, 14985, 9920, 1635>>, -53), D(1, <<16018, 4438, 8473, 1232>>, -53)>>,
       <<D(1, <<9194, 4049, 13861, 1613>>, -53), D(1, <<2330, 1783, 14331, 1260>>, -53)>>,
       <<D(1, <<9020, 5206, 9747, 1591>>, -53), D(1, <<15012, 4385, 13896, 1288>>, -53)>>,
       <<D(1, <<4181, 2877, 14074, 1568>>, -53), D(1, <<5628, 2288, 7029, 1316>>, -53)>>,
       <<D(1, <<7247, 4740, 10571, 1545>>, -53), D(1, <<4025, 1249, 9976, 1343>>, -53)>>,
       <<D(1, <<16086, 8398, 15738, 1521>>, -53), D(1, <<3009, 7048, 6217, 1370>>, -53)>>,
       <<D(1, <<10654, 801, 13310, 1497>>, -53), D(1, <<7182, 9778, 12003, 1396>>, -53)>>,
       <<D(1, <<3408, 6805, 3406, 1473>>, -53), D(1, <<13048, 897, 10819, 1422>>, -53)>>,
       <<D(1, <<15339, 6652, 2534, 1448>>, -53), D(1, <<15278, 6652, 2534, 1448>>, -53)>>,
       <<D(1, <<13099, 897, 10819, 1422>>, -53), D(1, <<3359, 6805, 3406, 1473>>, -53)>>,
       <<D(1, <<7234, 9778, 12003, 1396>>, -53), D(1, <<10605, 801, 13310, 1497>>, -53)>>,
       <<D(1, <<3062, 7048, 6217, 1370>>, -53), D(1, <<16039, 8398, 15738, 1521>>, -53)>>,
       <<D(1, <<4078, 1249, 9976, 1343>>, -53), D(1, <<7200, 4740, 10571, 1545>>, -53)>>,
       <<D(1, <<5695, 2288, 7029, 1316>>, -53), D(1, <<4125, 2877, 14074, 1568>>, -53)>>,
       <<D(1, <<15067, 4385, 13896, 1288>>, -53), D(1, <<8976, 5206, 9747, 1591>>, -53)>>,
       <<D(1, <<2386, 1783, 14331, 1260>>, -53), D(1, <<9150, 4049, 13861, 1613>>, -53)>>,
       <<D(1, <<16088, 4438, 8473, 1232>>, -53), D(1, <<14843, 14985, 9920, 1635>>, -53)>>,
       <<D(1, <<6779, 4565, 12848, 1203>>, -53), D(1, <<13459, 11871, 14201, 1656>>, -53)>>,
       <<D(1, <<2462, 8689, 11215, 1174>>, -53), D(1, <<1837, 9302, 10213, 1677>>, -53)>>,
       <<D(1, <<15667, 4167, 3720, 1145>>, -53), D(1, <<11919, 13987, 14236, 1697>>, -53)>>,
       <<D(1, <<14137, 7617, 6893, 1115>>, -53), D(1, <<12234, 8888, 9786, 1717>>, -53)>>,
       <<D(1, <<7503, 15027, 4499, 1085>>, -53), D(1, <<10542, 2870, 13148, 1736>>, -53)>>,
       <<D(1, <<7987, 1015, 13074, 1054>>, -53), D(1, <<10955, 14811, 7841, 1755>>, -53)>>,
       <<D(1, <<40, 0, 0, 1024>>, -53), D(1, <<3219, 8545, 10158, 1773>>, -53)>>,
       <<D(1, <<8499, 14270, 12782, 1985>>, -54), D(1, <<14771, 8012, 3623, 1791>>, -53)>>,
       <<D(1, <<4276, 4241, 15655, 1922>>, -54), D(1, <<9976, 15796, 4532, 1808>>, -53)>>,
       <<D(1, <<7759, 11539, 8930, 1859>>, -54), D(1, <<11353, 13556, 12801, 1824>>, -53)>>,
       <<D(1, <<1548, 11000, 9309, 1795>>, -54), D(1, <<14521, 11608, 11963, 1840>>, -53)>>,
       <<D(1, <<6313, 7390, 727, 1731>>, -54), D(1, <<5971, 183, 1939, 1856>>, -53)>>,
       <<D(1, <<6940, 1048, 16274, 1665>>, -54), D(1, <<16261, 15357, 15418, 1870>>, -53)>>,
       <<D(1, <<16363, 2659, 7122, 1600>>, -54), D(1, <<9825, 8369, 3177, 1885>>, -53)>>,
       <<D(1, <<5844, 15254, 6366, 1534>>, -54), D(1, <<2887, 9823, 14295, 1898>>, -53)>>,
       <<D(1, <<4996, 16187, 14337, 1467>>, -54), D(1, <<14327, 15358, 15936, 1911>>, -53)>>,
       <<D(1, <<3122, 4648, 14983, 1400>>, -54), D(1, <<11537, 2376, 8036, 1924>>, -53)>>,
       <<D(1, <<3627, 3, 8637, 1333>>, -54), D(1, <<13501, 12282, 6914, 1936>>, -53)>>,
       <<D(1, <<10644, 7359, 12019, 1265>>, -54), D(1, <<5364, 3345, 12513, 1947>>, -53)>>,
       <<D(1, <<5662, 15887, 9084, 1197>>, -54), D(1, <<6930, 14831, 8390, 1958>>, -53)>>,
       <<D(1, <<3701, 13514, 173, 1129>>, -54), D(1, <<15221, 3449, 10878, 1968>>, -53)>>,
       <<D(1, <<1744, 1612, 2012, 1060>>, -54), D(1, <<16140, 7458, 3540, 1978>>, -53)>>,
       <<D(1, <<14787, 2962, 13503, 1981>>, -55), D(1, <<14875, 15846, 2713, 1987>>, -53)>>,
       <<D(1, <<1796, 6967, 13091, 1842>>, -55), D(1, <<1799, 1338, 8354, 1995>>, -53)>>,
       <<D(1, <<6572, 12553, 3482, 1703>>, -55), D(1, <<118, 2536, 4035, 2003>>, -53)>>,
       <<D(1, <<8941, 13785, 1757, 1563>>, -55), D(1, <<14010, 9442, 6102, 2010>>, -53)>>,
       <<D(1, <<13328, 14381, 8615, 1422>>, -55), D(1, <<7185, 12804, 14520, 2016>>, -53)>>,
       <<D(1, <<5154, 7841, 8374, 1281>>, -55), D(1, <<9301, 4287, 12873, 2022>>, -53)>>,
       <<D(1, <<7854, 6710, 1737, 1140>>, -55), D(1, <<5236, 9410, 1130, 2028>>, -53)>>,
       <<D(1, <<9292, 12605, 11588, 1996>>, -56), D(1, <<16006, 5768, 12034, 2032>>, -53)>>,
       <<D(1, <<6323, 11505, 9737, 1712>>, -56), D(1, <<10178, 5089, 12793, 2036>>, -53)>>,
       <<D(1, <<537, 8970, 15723, 1427>>, -56), D(1, <<5535, 4192, 3387, 2040>>, -53)>>,
       <<D(1, <<4749, 13737, 14582, 1142>>, -56), D(1, <<16371, 1475, 183, 2043>>, -53)>>,
       <<D(1, <<2933, 9151, 15476, 1714>>, -57), D(1, <<9755, 13387, 3166, 2045>>, -53)>>,
       <<D(1, <<7980, 10207, 9612, 1143>>, -57), D(1, <<1381, 8956, 12327, 2046>>, -53)>>,
       <<D(1, <<8801, 11815, 12466, 1143>>, -58), D(1, <<12169, 8150, 11273, 2047>>, -53)>>,
       <<D(1, <<14865, 13912, 8898, 1147>>, -100), D(1, <<0, 0, 0, 1024>>, -52)>>,
       <<D(0, <<5994, 11815, 12466, 1143>>, -58), D(1, <<12171, 8150, 11273, 2047>>, -53)>>,
       <<D(0, <<6577, 10207, 9612, 1143>>, -57), D(1, <<1384, 8956, 12327, 2046>>, -53)>>,
       <<D(0, <<1531, 9151, 15476, 1714>>, -57), D(1, <<9760, 13387, 3166, 2045>>, -53)>>,
       <<D(0, <<4049, 13737, 14582, 1142>>, -56), D(1, <<16377, 1475, 183, 2043>>, -53)>>,
       <<D(0, <<16349, 8969, 15723, 1427>>, -56), D(1, <<5541, 4192, 3387, 2040>>, -53)>>,
       <<D(0, <<5626, 11505, 9737, 1712>>, -56), D(1, <<10187, 5089, 12793, 2036>>, -53)>>,
       <<D(0, <<8595, 12605, 11588, 1996>>, -56), D(1, <<16016, 5768, 12034, 2032>>, -53)>>,
       <<D(0, <<7570, 6710, 1737, 1140>>, -55), D(1, <<5246, 9410, 1130, 2028>>, -53)>>,
       <<D(0, <<4808, 7841, 8374, 1281>>, -55), D(1, <<9314, 4287, 12873, 2022>>, -53)>>,
       <<D(0, <<13045, 14381, 8615, 1422>>, -55), D(1, <<7198, 12804, 14520, 2016>>, -53)>>,
       <<D(0, <<8597, 13785, 1757, 1563>>, -55), D(1, <<14027, 9442, 6102, 2010>>, -53)>>,
       <<D(0, <<6228, 12553, 3482, 1703>>, -55), D(1, <<136, 2536, 4035, 2003>>, -53)>>,
       <<D(0, <<1516, 6967, 13091, 1842>>, -55), D(1, <<1815, 1338, 8354, 1995>>, -53)>>,
       <<D(0, <<14447, 2962, 13503, 1981>>, -55), D(1, <<14896, 15846, 2713, 1987>>, -53)>>,
       <<D(0, <<1606, 1612, 2012, 1060>>, -54), D(1, <<16159, 7458, 3540, 1978>>, -53)>>,
       <<D(0, <<3532, 13514, 173, 1129>>, -54), D(1, <<15245, 3449, 10878, 1968>>, -53)>>,
       <<D(0, <<5495, 15887, 9084, 1197>>, -54), D(1, <<6956, 14831, 8390, 1958>>, -53)>>,
       <<D(0, <<10507, 7359, 12019, 1265>>, -54), D(1, <<5386, 3345, 12513, 1947>>, -53)>>,
       <<D(0, <<3461, 3, 8637, 1333>>, -54), D(1, <<13530, 12282, 6914, 1936>>, -53)>>,
       <<D(0, <<2987, 4648, 14983, 1400>>, -54), D(1, <<11561, 2376, 8036, 1924>>, -53)>>,
       <<D(0, <<4832, 16187, 14337, 1467>>, -54), D(1, <<14359, 15358, 15936, 1911>>, -53)>>,
       <<D(0, <<5681, 15254, 6366, 1534>>, -54), D(1, <<2920, 9823, 14295, 1898>>, -53)>>,
       <<D(0, <<16231, 2659, 7122, 1600>>, -54), D(1, <<9853, 8369, 3177, 1885>>, -53)>>,
       <<D(0, <<6780, 1048, 16274, 1665>>, -54), D(1, <<16296, 15357, 15418, 1870>>, -53)>>,
       <<D(0, <<6154, 7390, 727, 1731>>, -54), D(1, <<6008, 183, 1939, 1856>>, -53)>>,
       <<D(0, <<1390, 11000, 9309, 1795>>, -54), D(1, <<14560, 11608, 11963, 1840>>, -53)>>,
       <<D(0, <<7602, 11539, 8930, 1859>>, -54), D(1, <<11393, 13556, 12801, 1824>>, -53)>>,
       <<D(0, <<4150, 4241, 15655, 1922>>, -54), D(1, <<10009, 15796, 4532, 1808>>, -53)>>,
       <<D(0, <<8345, 14270, 12782, 1985>>, -54), D(1, <<14814, 8012, 3623, 1791>>, -53)>>,
       <<D(0, <<16312, 16383, 16383, 2047>>, -54), D(1, <<3263, 8545, 10158, 1773>>, -53)>>,
       <<D(0, <<7925, 1015, 13074, 1054>>, -53), D(1, <<10992, 14811, 7841, 1755>>, -53)>>,
       <<D(0, <<7428, 15027, 4499, 1085>>, -53), D(1, <<10589, 2870, 13148, 1736>>, -53)>>,
       <<D(0, <<14076, 7617, 6893, 1115>>, -53), D(1, <<12273, 8888, 9786, 1717>>, -53)>>,
       <<D(0, <<15594, 4167, 3720, 1145>>, -53), D(1, <<11968, 13987, 14236, 1697>>, -53)>>,
       <<D(0, <<2390, 8689, 11215, 1174>>, -53), D(1, <<1887, 9302, 10213, 1677>>, -53)>>,
       <<D(0, <<6721, 4565, 12848, 1203>>, -53), D(1, <<13501, 11871, 14201, 1656>>, -53)>>,
       <<D(0, <<16017, 4438, 8473, 1232>>, -53), D(1, <<14896, 14985, 9920, 1635>>, -53)>>,
       <<D(0, <<2330, 1783, 14331, 1260>>, -53), D(1, <<9194, 4049, 13861, 1613>>, -53)>>,
       <<D(0, <<14999, 4385, 13896, 1288>>, -53), D(1, <<9031, 5206, 9747, 1591>>, -53)>>,
       <<D(0, <<5628, 2288, 7029, 1316>>, -53), D(1, <<4181, 2877, 14074, 1568>>, -53)>>,
       <<D(0, <<4024, 1249, 9976, 1343>>, -53), D(1, <<7247, 4740, 10571, 1545>>, -53)>>,
       <<D(0, <<2997, 7048, 6217, 1370>>, -53), D(1, <<16097, 8398, 15738, 1521>>, -53)>>,
       <<D(0, <<7182, 9778, 12003, 1396>>, -53), D(1, <<10654, 801, 13310, 1497>>, -53)>>,
       <<D(0, <<13036, 897, 10819, 1422>>, -53), D(1, <<3420, 6805, 3406, 1473>>, -53)>>,
       <<D(0, <<15277, 6652, 2534, 1448>>, -53), D(1, <<15340, 6652, 2534, 1448>>, -53)>>,
       <<D(0, <<3358, 6805, 3406, 1473>>, -53), D(1, <<13100, 897, 10819, 1422>>, -53)>>,
       <<D(0, <<10594, 801, 13310, 1497>>, -53), D(1, <<7246, 9778, 12003, 1396>>, -53)>>,
       <<D(0, <<16038, 8398, 15738, 1521>>, -53), D(1, <<3063, 7048, 6217, 1370>>, -53)>>,
       <<D(0, <<7189, 4740, 10571, 1545>>, -53), D(1, <<4091, 1249, 9976, 1343>>, -53)>>,
       <<D(0, <<4124, 2877, 14074, 1568>>, -53), D(1, <<5695, 2288, 7029, 1316>>, -53)>>,
       <<D(0, <<8975, 5206, 9747, 1591>>, -53), D(1, <<15068, 4385, 13896, 1288>>, -53)>>,
       <<D(0, <<9140, 4049, 13861, 1613>>, -53), D(1, <<2399, 1783, 14331, 1260>>, -53)>>,
       <<D(0, <<14843, 14985, 9920, 1635>>, -53), D(1, <<16088, 4438, 8473, 1232>>, -53)>>,
       <<D(0, <<13449, 11871, 14201, 1656>>, -53), D(1, <<6792, 4565, 12848, 1203>>, -53)>>,
       <<D(0, <<1837, 9302, 10213, 1677>>, -53), D(1, <<2462, 8689, 11215, 1174>>, -53)>>,
       <<D(0, <<11918, 13987, 14236, 1697>>, -53), D(1, <<15667, 4167, 3720, 1145>>, -53)>>,
       <<D(0, <<12225, 8888, 9786, 1717>>, -53), D(1, <<14151, 7617, 6893, 1115>>, -53)>>,
       <<D(0, <<10542, 2870, 13148, 1736>>, -53), D(1, <<7503, 15027, 4499, 1085>>, -53)>>,
       <<D(0, <<10954, 14811, 7841, 1755>>, -53), D(1, <<7987, 1015, 13074, 1054>>, -53)>>,
       <<D(0, <<3219, 8545, 10158, 1773>>, -53), D(1, <<41, 0, 0, 1024>>, -53)>>,
       <<D(0, <<14771, 8012, 3623, 1791>>, -53), D(1, <<8500, 14270, 12782, 1985>>, -54)>>,
       <<D(0, <<9968, 15796, 4532, 1808>>, -53), D(1, <<4306, 4241, 15655, 1922>>, -54)>>,
       <<D(0, <<11353, 13556, 12801, 1824>>, -53), D(1, <<7760, 11539, 8930, 1859>>, -54)>>,
       <<D(0, <<14521, 11608, 11963, 1840>>, -53), D(1, <<1549, 11000, 9309, 1795>>, -54)>>,
       <<D(0, <<5971, 183, 1939, 1856>>, -53), D(1, <<6314, 7390, 727, 1731>>, -54)>>,
       <<D(0, <<16260, 15357, 15418, 1870>>, -53), D(1, <<6941, 1048, 16274, 1665>>, -54)>>,
       <<D(0, <<9818, 8369, 3177, 1885>>, -53), D(1, <<9, 2660, 7122, 1600>>, -54)>>,
       <<D(0, <<2887, 9823, 14295, 1898>>, -53), D(1, <<5845, 15254, 6366, 1534>>, -54)>>,
       <<D(0, <<14327, 15358, 15936, 1911>>, -53), D(1, <<4997, 16187, 14337, 1467>>, -54)>>,
       <<D(0, <<11531, 2376, 8036, 1924>>, -53), D(1, <<3153, 4648, 14983, 1400>>, -54)>>,
       <<D(0, <<13501, 12282, 6914, 1936>>, -53), D(1, <<3628, 3, 8637, 1333>>, -54)>>,
       <<D(0, <<5359, 3345, 12513, 1947>>, -53), D(1, <<10675, 7359, 12019, 1265>>, -54)>>,
       <<D(0, <<6930, 14831, 8390, 1958>>, -53), D(1, <<5663, 15887, 9084, 1197>>, -54)>>,
       <<D(0, <<15221, 3449, 10878, 1968>>, -53), D(1, <<3702, 13514, 173, 1129>>, -54)>>,
       <<D(0, <<16136, 7458, 3540, 1978>>, -53), D(1, <<1776, 1612, 2012, 1060>>, -54)>>,
       <<D(0, <<14874, 15846, 2713, 1987>>, -53), D(1, <<14789, 2962, 13503, 1981>>, -55)>>,
       <<D(0, <<1795, 1338, 8354, 1995>>, -53), D(1, <<1860, 6967, 13091, 1842>>, -55)>>,
       <<D(0, <<118, 2536, 4035, 2003>>, -53), D(1, <<6574, 12553, 3482, 1703>>, -55)>>,
       <<D(0, <<14010, 9442, 6102, 2010>>, -53), D(1, <<8943, 13785, 1757, 1563>>, -55)>>,
       <<D(0, <<7183, 12804, 14520, 2016>>, -53), D(1, <<13393, 14381, 8615, 1422>>, -55)>>,
       <<D(0, <<9301, 4287, 12873, 2022>>, -53), D(1, <<5156, 7841, 8374, 1281>>, -55)>>,
       <<D(0, <<5234, 9410, 1130, 2028>>, -53), D(1, <<7920, 6710, 1737, 1140>>, -55)>>,
       <<D(0, <<16006, 5768, 12034, 2032>>, -53), D(1, <<9296, 12605, 11588, 1996>>, -56)>>,
       <<D(0, <<10178, 5089, 12793, 2036>>, -53), D(1, <<6328, 11505, 9737, 1712>>, -56)>>,
       <<D(0, <<5533, 4192, 3387, 2040>>, -53), D(1, <<669, 8970, 15723, 1427>>, -56)>>,
       <<D(0, <<16371, 1475, 183, 2043>>, -53), D(1, <<4753, 13737, 14582, 1142>>, -56)>>,
       <<D(0, <<9755, 13387, 3166, 2045>>, -53), D(1, <<2942, 9151, 15476, 1714>>, -57)>>,
       <<D(0, <<1381, 8956, 12327, 2046>>, -53), D(1, <<7988, 10207, 9612, 1143>>, -57)>>,
       <<D(0, <<12169, 8150, 11273, 2047>>, -53), D(1, <<8818, 11815, 12466, 1143>>, -58)>>,
       <<D(0, <<0, 0, 0, 1024>>, -52), D(1, <<2945, 6538, 3148, 1677>>, -100)>>,
       <<D(0, <<12171, 8150, 11273, 2047>>, -53), D(0, <<5976, 11815, 12466, 1143>>, -58)>>,
       <<D(0, <<1384, 8956, 12327, 2046>>, -53), D(0, <<6568, 10207, 9612, 1143>>, -57)>>,
       <<D(0, <<9760, 13387, 3166, 2045>>, -53), D(0, <<1523, 9151, 15476, 1714>>, -57)>>,
       <<D(0, <<16377, 1475, 183, 2043>>, -53), D(0, <<4044, 13737, 14582, 1142>>, -56)>>,
       <<D(0, <<5543, 4192, 3387, 2040>>, -53), D(0, <<16218, 8969, 15723, 1427>>, -56)>>,
       <<D(0, <<10187, 5089, 12793, 2036>>, -53), D(0, <<5621, 11505, 9737, 1712>>, -56)>>,
       <<D(0, <<16016, 5768, 12034, 2032>>, -53), D(0, <<8591, 12605, 11588, 1996>>, -56)>>,
       <<D(0, <<5249, 9410, 1130, 2028>>, -53), D(0, <<7504, 6710, 1737, 1140>>, -55)>>,
       <<D(0, <<9315, 4287, 12873, 2022>>, -53), D(0, <<4805, 7841, 8374, 1281>>, -55)>>,
       <<D(0, <<7201, 12804, 14520, 2016>>, -53), D(0, <<12980, 14381, 8615, 1422>>, -55)>>,
       <<D(0, <<14027, 9442, 6102, 2010>>, -53), D(0, <<8595, 13785, 1757, 1563>>, -55)>>,
       <<D(0, <<136, 2536, 4035, 2003>>, -53), D(0, <<6226, 12553, 3482, 1703>>, -55)>>,
       <<D(0, <<1818, 1338, 8354, 1995>>, -53), D(0, <<1452, 6967, 13091, 1842>>, -55)>>,
       <<D(0, <<14896, 15846, 2713, 1987>>, -53), D(0, <<14445, 2962, 13503, 1981>>, -55)>>,
       <<D(0, <<16163, 7458, 3540, 1978>>, -53), D(0, <<1574, 1612, 2012, 1060>>, -54)>>,
       <<D(0, <<15245, 3449, 10878, 1968>>, -53), D(0, <<3531, 13514, 173, 1129>>, -54)>>,
       <<D(0, <<6956, 14831, 8390, 1958>>, -53), D(0, <<5494, 15887, 9084, 1197>>, -54)>>,
       <<D(0, <<5392, 3345, 12513, 1947>>, -53), D(0, <<10476, 7359, 12019, 1265>>, -54)>>,
       <<D(0, <<13530, 12282, 6914, 1936>>, -53), D(0, <<3460, 3, 8637, 1333>>, -54)>>,
       <<D(0, <<11567, 2376, 8036, 1924>>, -53), D(0, <<2956, 4648, 14983, 1400>>, -54)>>,
       <<D(0, <<14359, 15358, 15936, 1911>>, -53), D(0, <<4831, 16187, 14337, 1467>>, -54)>>,
       <<D(0, <<2920, 9823, 14295, 1898>>, -53), D(0, <<5680, 15254, 6366, 1534>>, -54)>>,
       <<D(0, <<9859, 8369, 3177, 1885>>, -53), D(0, <<16200, 2659, 7122, 1600>>, -54)>>,
       <<D(0, <<16296, 15357, 15418, 1870>>, -53), D(0, <<6779, 1048, 16274, 1665>>, -54)>>,
       <<D(0, <<6009, 183, 1939, 1856>>, -53), D(0, <<6153, 7390, 727, 1731>>, -54)>>,
       <<D(0, <<14560, 11608, 11963, 1840>>, -53), D(0, <<1389, 11000, 9309, 1795>>, -54)>>,
       <<D(0, <<11393, 13556, 12801, 1824>>, -53), D(0, <<7601, 11539, 8930, 1859>>, -54)>>,
       <<D(0, <<10017, 15796, 4532, 1808>>, -53), D(0, <<4120, 4241, 15655, 1922>>, -54)>>,
       <<D(0, <<14814, 8012, 3623, 1791>>, -53), D(0, <<8344, 14270, 12782, 1985>>, -54)>>,
       <<D(0, <<3263, 8545, 10158, 1773>>, -53), D(0, <<16311, 16383, 16383, 2047>>, -54)>>,
       <<D(0, <<11000, 14811, 7841, 1755>>, -53), D(0, <<7911, 1015, 13074, 1054>>, -53)>>,
       <<D(0, <<10589, 2870, 13148, 1736>>, -53), D(0, <<7428, 15027, 4499, 1085>>, -53)>>,
       <<D(0, <<12282, 8888, 9786, 1717>>, -53), D(0, <<14063, 7617, 6893, 1115>>, -53)>>,
       <<D(0, <<11968, 13987, 14236, 1697>>, -53), D(0, <<15594, 4167, 3720, 1145>>, -53)>>,
       <<D(0, <<1887, 9302, 10213, 1677>>, -53), D(0, <<2389, 8689, 11215, 1174>>, -53)>>,
       <<D(0, <<13511, 11871, 14201, 1656>>, -53), D(0, <<6707, 4565, 12848, 1203>>, -53)>>,
       <<D(0, <<14896, 14985, 9920, 1635>>, -53), D(0, <<16017, 4438, 8473, 1232>>, -53)>>,
       <<D(0, <<9204, 4049, 13861, 1613>>, -53), D(0, <<2317, 1783, 14331, 1260>>, -53)>>,
       <<D(0, <<9031, 5206, 9747, 1591>>, -53), D(0, <<14999, 4385, 13896, 1288>>, -53)>>,
       <<D(0, <<4181, 2877, 14074, 1568>>, -53), D(0, <<5627, 2288, 7029, 1316>>, -53)>>,
       <<D(0, <<7258, 4740, 10571, 1545>>, -53), D(0, <<4012, 1249, 9976, 1343>>, -53)>>,
       <<D(0, <<16098, 8398, 15738, 1521>>, -53), D(0, <<2997, 7048, 6217, 1370>>, -53)>>,
       <<D(0, <<10665, 801, 13310, 1497>>, -53), D(0, <<7169, 9778, 12003, 1396>>, -53)>>,
       <<D(0, <<3420, 6805, 3406, 1473>>, -53), D(0, <<13036, 897, 10819, 1422>>, -53)>>,
       <<D(0, <<15340, 6652, 2534, 1448>>, -53), D(0, <<15277, 6652, 2534, 1448>>, -53)>>,
       <<D(0, <<13111, 897, 10819, 1422>>, -53), D(0, <<3347, 6805, 3406, 1473>>, -53)>>,
       <<D(0, <<7247, 9778, 12003, 1396>>, -53), D(0, <<10593, 801, 13310, 1497>>, -53)>>,
       <<D(0, <<3075, 7048, 6217, 1370>>, -53), D(0, <<16027, 8398, 15738, 1521>>, -53)>>,
       <<D(0, <<4091, 1249, 9976, 1343>>, -53), D(0, <<7189, 4740, 10571, 1545>>, -53)>>,
       <<D(0, <<5696, 2288, 7029, 1316>>, -53), D(0, <<4124, 2877, 14074, 1568>>, -53)>>,
       <<D(0, <<15081, 4385, 13896, 1288>>, -53), D(0, <<8965, 5206, 9747, 1591>>, -53)>>,
       <<D(0, <<2400, 1783, 14331, 1260>>, -53), D(0, <<9139, 4049, 13861, 1613>>, -53)>>,
       <<D(0, <<16088, 4438, 8473, 1232>>, -53), D(0, <<14842, 14985, 9920, 1635>>, -53)>>,
       <<D(0, <<6793, 4565, 12848, 1203>>, -53), D(0, <<13449, 11871, 14201, 1656>>, -53)>>,
       <<D(0, <<2463, 8689, 11215, 1174>>, -53), D(0, <<1836, 9302, 10213, 1677>>, -53)>>,
       <<D(0, <<15681, 4167, 3720, 1145>>, -53), D(0, <<11909, 13987, 14236, 1697>>, -53)>>,
       <<D(0, <<14151, 7617, 6893, 1115>>, -53), D(0, <<12225, 8888, 9786, 1717>>, -53)>>,
       <<D(0, <<7504, 15027, 4499, 1085>>, -53), D(0, <<10542, 2870, 13148, 1736>>, -53)>>,
       <<D(0, <<8001, 1015, 13074, 1054>>, -53), D(0, <<10946, 14811, 7841, 1755>>, -53)>>,
       <<D(0, <<41, 0, 0, 1024>>, -53), D(0, <<3219, 8545, 10158, 1773>>, -53)>>,
       <<D(0, <<8529, 14270, 12782, 1985>>, -54), D(0, <<14763, 8012, 3623, 1791>>, -53)>>,
       <<D(0, <<4307, 4241, 15655, 1922>>, -54), D(0, <<9968, 15796, 4532, 1808>>, -53)>>,
       <<D(0, <<7761, 11539, 8930, 1859>>, -54), D(0, <<11352, 13556, 12801, 1824>>, -53)>>,
       <<D(0, <<1578, 11000, 9309, 1795>>, -54), D(0, <<14514, 11608, 11963, 1840>>, -53)>>,
       <<D(0, <<6315, 7390, 727, 1731>>, -54), D(0, <<5971, 183, 1939, 1856>>, -53)>>,
       <<D(0, <<6971, 1048, 16274, 1665>>, -54), D(0, <<16254, 15357, 15418, 1870>>, -53)>>,
       <<D(0, <<10, 2660, 7122, 1600>>, -54), D(0, <<9818, 8369, 3177, 1885>>, -53)>>,
       <<D(0, <<5846, 15254, 6366, 1534>>, -54), D(0, <<2887, 9823, 14295, 1898>>, -53)>>,
       <<D(0, <<5028, 16187, 14337, 1467>>, -54), D(0, <<14321, 15358, 15936, 1911>>, -53)>>,
       <<D(0, <<3154, 4648, 14983, 1400>>, -54), D(0, <<11531, 2376, 8036, 1924>>, -53)>>,
       <<D(0, <<3659, 3, 8637, 1333>>, -54), D(0, <<13495, 12282, 6914, 1936>>, -53)>>,
       <<D(0, <<10676, 7359, 12019, 1265>>, -54), D(0, <<5359, 3345, 12513, 1947>>, -53)>>,
       <<D(0, <<5664, 15887, 9084, 1197>>, -54), D(0, <<6930, 14831, 8390, 1958>>, -53)>>,
       <<D(0, <<3734, 13514, 173, 1129>>, -54), D(0, <<15216, 3449, 10878, 1968>>, -53)>>,
       <<D(0, <<1777, 1612, 2012, 1060>>, -54), D(0, <<16136, 7458, 3540, 1978>>, -53)>>,
       <<D(0, <<14791, 2962, 13503, 1981>>, -55), D(0, <<14874, 15846, 2713, 1987>>, -53)>>,
       <<D(0, <<1862, 6967, 13091, 1842>>, -55), D(0, <<1795, 1338, 8354, 1995>>, -53)>>,
       <<D(0, <<6576, 12553, 3482, 1703>>, -55), D(0, <<118, 2536, 4035, 2003>>, -53)>>,
       <<D(0, <<9008, 13785, 1757, 1563>>, -55), D(0, <<14007, 9442, 6102, 2010>>, -53)>>,
       <<D(0, <<13395, 14381, 8615, 1422>>, -55), D(0, <<7182, 12804, 14520, 2016>>, -53)>>,
       <<D(0, <<5158, 7841, 8374, 1281>>, -55), D(0, <<9301, 4287, 12873, 2022>>, -53)>>,
       <<D(0, <<7922, 6710, 1737, 1140>>, -55), D(0, <<5234, 9410, 1130, 2028>>, -53)>>,
       <<D(0, <<9300, 12605, 11588, 1996>>, -56), D(0, <<16006, 5768, 12034, 2032>>, -53)>>,
       <<D(0, <<6460, 11505, 9737, 1712>>, -56), D(0, <<10176, 5089, 12793, 2036>>, -53)>>,
       <<D(0, <<673, 8970, 15723, 1427>>, -56), D(0, <<5533, 4192, 3387, 2040>>, -53)>>,
       <<D(0, <<4758, 13737, 14582, 1142>>, -56), D(0, <<16371, 1475, 183, 2043>>, -53)>>,
       <<D(0, <<3206, 9151, 15476, 1714>>, -57), D(0, <<9754, 13387, 3166, 2045>>, -53)>>,
       <<D(0, <<7997, 10207, 9612, 1143>>, -57), D(0, <<1381, 8956, 12327, 2046>>, -53)>>,
       <<D(0, <<9348, 11815, 12466, 1143>>, -58), D(0, <<12169, 8150, 11273, 2047>>, -53)>>,
       <<D(0, <<7409, 15547, 13781, 1694>>, -100), D(0, <<0, 0, 0, 1024>>, -52)>>,
       <<D(1, <<5959, 11815, 12466, 1143>>, -58), D(0, <<12171, 8150, 11273, 2047>>, -53)>>,
       <<D(1, <<6303, 10207, 9612, 1143>>, -57), D(0, <<1385, 8956, 12327, 2046>>, -53)>>,
       <<D(1, <<1514, 9151, 15476, 1714>>, -57), D(0, <<9760, 13387, 3166, 2045>>, -53)>>,
       <<D(1, <<3912, 13737, 14582, 1142>>, -56), D(0, <<16379, 1475, 183, 2043>>, -53)>>,
       <<D(1, <<16213, 8969, 15723, 1427>>, -56), D(0, <<5543, 4192, 3387, 2040>>, -53)>>,
       <<D(1, <<5617, 11505, 9737, 1712>>, -56), D(0, <<10187, 5089, 12793, 2036>>, -53)>>,
       <<D(1, <<8459, 12605, 11588, 1996>>, -56), D(0, <<16018, 5768, 12034, 2032>>, -53)>>,
       <<D(1, <<7502, 6710, 1737, 1140>>, -55), D(0, <<5249, 9410, 1130, 2028>>, -53)>>,
       <<D(1, <<4740, 7841, 8374, 1281>>, -55), D(0, <<9317, 4287, 12873, 2022>>, -53)>>,
       <<D(1, <<12978, 14381, 8615, 1422>>, -55), D(0, <<7201, 12804, 14520, 2016>>, -53)>>,
       <<D(1, <<8593, 13785, 1757, 1563>>, -55), D(0, <<14027, 9442, 6102, 2010>>, -53)>>,
       <<D(1, <<6161, 12553, 3482, 1703>>, -55), D(0, <<140, 2536, 4035, 2003>>, -53)>>,
       <<D(1, <<1450, 6967, 13091, 1842>>, -55), D(0, <<1819, 1338, 8354, 1995>>, -53)>>,
       <<D(1, <<14442, 2962, 13503, 1981>>, -55), D(0, <<14896, 15846, 2713, 1987>>, -53)>>,
       <<D(1, <<1573, 1612, 2012, 1060>>, -54), D(0, <<16163, 7458, 3540, 1978>>, -53)>>,
       <<D(1, <<3530, 13514, 173, 1129>>, -54), D(0, <<15245, 3449, 10878, 1968>>, -53)>>,
       <<D(1, <<5462, 15887, 9084, 1197>>, -54), D(0, <<6961, 14831, 8390, 1958>>, -53)>>,
       <<D(1, <<10475, 7359, 12019, 1265>>, -54), D(0, <<5392, 3345, 12513, 1947>>, -53)>>,
       <<D(1, <<3459, 3, 8637, 1333>>, -54), D(0, <<13530, 12282, 6914, 1936>>, -53)>>,
       <<D(1, <<2955, 4648, 14983, 1400>>, -54), D(0, <<11567, 2376, 8036, 1924>>, -53)>>,
       <<D(1, <<4830, 16187, 14337, 1467>>, -54), D(0, <<14359, 15358, 15936, 1911>>, -53)>>,
       <<D(1, <<5650, 15254, 6366, 1534>>, -54), D(0, <<2926, 9823, 14295, 1898>>, -53)>>,
       <<D(1, <<16199, 2659, 7122, 1600>>, -54), D(0, <<9860, 8369, 3177, 1885>>, -53)>>,
       <<D(1, <<6778, 1048, 16274, 1665>>, -54), D(0, <<16297, 15357, 15418, 1870>>, -53)>>,
       <<D(1, <<6123, 7390, 727, 1731>>, -54), D(0, <<6016, 183, 1939, 1856>>, -53)>>,
       <<D(1, <<1388, 11000, 9309, 1795>>, -54), D(0, <<14560, 11608, 11963, 1840>>, -53)>>,
       <<D(1, <<7572, 11539, 8930, 1859>>, -54), D(0, <<11400, 13556, 12801, 1824>>, -53)>>,
       <<D(1, <<4119, 4241, 15655, 1922>>, -54), D(0, <<10017, 15796, 4532, 1808>>, -53)>>,
       <<D(1, <<8343, 14270, 12782, 1985>>, -54), D(0, <<14814, 8012, 3623, 1791>>, -53)>>,
       <<D(1, <<16283, 16383, 16383, 2047>>, -54), D(0, <<3272, 8545, 10158, 1773>>, -53)>>,
       <<D(1, <<7911, 1015, 13074, 1054>>, -53), D(0, <<11001, 14811, 7841, 1755>>, -53)>>,
       <<D(1, <<7414, 15027, 4499, 1085>>, -53), D(0, <<10598, 2870, 13148, 1736>>, -53)>>,
       <<D(1, <<14062, 7617, 6893, 1115>>, -53), D(0, <<12282, 8888, 9786, 1717>>, -53)>>,
       <<D(1, <<15593, 4167, 3720, 1145>>, -53), D(0, <<11968, 13987, 14236, 1697>>, -53)>>,
       <<D(1, <<2376, 8689, 11215, 1174>>, -53), D(0, <<1897, 9302, 10213, 1677>>, -53)>>,
       <<D(1, <<6707, 4565, 12848, 1203>>, -53), D(0, <<13511, 11871, 14201, 1656>>, -53)>>,
       <<D(1, <<16004, 4438, 8473, 1232>>, -53), D(0, <<14906, 14985, 9920, 1635>>, -53)>>,
       <<D(1, <<2316, 1783, 14331, 1260>>, -53), D(0, <<9204, 4049, 13861, 1613>>, -53)>>,
       <<D(1, <<14998, 4385, 13896, 1288>>, -53), D(0, <<9032, 5206, 9747, 1591>>, -53)>>,
       <<D(1, <<5614, 2288, 7029, 1316>>, -53), D(0, <<4192, 2877, 14074, 1568>>, -53)>>,
       <<D(1, <<4011, 1249, 9976, 1343>>, -53), D(0, <<7258, 4740, 10571, 1545>>, -53)>>,
       <<D(1, <<2996, 7048, 6217, 1370>>, -53), D(0, <<16098, 8398, 15738, 1521>>, -53)>>,
       <<D(1, <<7169, 9778, 12003, 1396>>, -53), D(0, <<10666, 801, 13310, 1497>>, -53)>>,
       <<D(1, <<13035, 897, 10819, 1422>>, -53), D(0, <<3420, 6805, 3406, 1473>>, -53)>>,
       <<D(1, <<15265, 6652, 2534, 1448>>, -53), D(0, <<15352, 6652, 2534, 1448>>, -53)>>,
       <<D(1, <<3346, 6805, 3406, 1473>>, -53), D(0, <<13112, 897, 10819, 1422>>, -53)>>,
       <<D(1, <<10593, 801, 13310, 1497>>, -53), D(0, <<7247, 9778, 12003, 1396>>, -53)>>,
       <<D(1, <<16027, 8398, 15738, 1521>>, -53), D(0, <<3075, 7048, 6217, 1370>>, -53)>>,
       <<D(1, <<7188, 4740, 10571, 1545>>, -53), D(0, <<4092, 1249, 9976, 1343>>, -53)>>,
       <<D(1, <<4113, 2877, 14074, 1568>>, -53), D(0, <<5708, 2288, 7029, 1316>>, -53)>>,
       <<D(1, <<8965, 5206, 9747, 1591>>, -53), D(0, <<15081, 4385, 13896, 1288>>, -53)>>,
       <<D(1, <<9139, 4049, 13861, 1613>>, -53), D(0, <<2400, 1783, 14331, 1260>>, -53)>>,
       <<D(1, <<14832, 14985, 9920, 1635>>, -53), D(0, <<16102, 4438, 8473, 1232>>, -53)>>,
       <<D(1, <<13448, 11871, 14201, 1656>>, -53), D(0, <<6793, 4565, 12848, 1203>>, -53)>>,
       <<D(1, <<1827, 9302, 10213, 1677>>, -53), D(0, <<2476, 8689, 11215, 1174>>, -53)>>,
       <<D(1, <<11909, 13987, 14236, 1697>>, -53), D(0, <<15681, 4167, 3720, 1145>>, -53)>>,
       <<D(1, <<12224, 8888, 9786, 1717>>, -53), D(0, <<14151, 7617, 6893, 1115>>, -53)>>,
       <<D(1, <<10533, 2870, 13148, 1736>>, -53), D(0, <<7518, 15027, 4499, 1085>>, -53)>>,
       <<D(1, <<10946, 14811, 7841, 1755>>, -53), D(0, <<8002, 1015, 13074, 1054>>, -53)>>,
       <<D(1, <<3210, 8545, 10158, 1773>>, -53), D(0, <<55, 0, 0, 1024>>, -53)>>,
       <<D(1, <<14763, 8012, 3623, 1791>>, -53), D(0, <<8530, 14270, 12782, 1985>>, -54)>>,
       <<D(1, <<9967, 15796, 4532, 1808>>, -53), D(0, <<4308, 4241, 15655, 1922>>, -54)>>,
       <<D(1, <<11345, 13556, 12801, 1824>>, -53), D(0, <<7790, 11539, 8930, 1859>>, -54)>>,
       <<D(1, <<14513, 11608, 11963, 1840>>, -53), D(0, <<1579, 11000, 9309, 1795>>, -54)>>,
       <<D(1, <<5964, 183, 1939, 1856>>, -53), D(0, <<6345, 7390, 727, 1731>>, -54)>>,
       <<D(1, <<16253, 15357, 15418, 1870>>, -53), D(0, <<6972, 1048, 16274, 1665>>, -54)>>,
       <<D(1, <<9818, 8369, 3177, 1885>>, -53), D(0, <<11, 2660, 7122, 1600>>, -54)>>,
       <<D(1, <<2880, 9823, 14295, 1898>>, -53), D(0, <<5877, 15254, 6366, 1534>>, -54)>>,
       <<D(1, <<14321, 15358, 15936, 1911>>, -53), D(0, <<5029, 16187, 14337, 1467>>, -54)>>,
       <<D(1, <<11531, 2376, 8036, 1924>>, -53), D(0, <<3155, 4648, 14983, 1400>>, -54)>>,
       <<D(1, <<13495, 12282, 6914, 1936>>, -53), D(0, <<3660, 3, 8637, 1333>>, -54)>>,
       <<D(1, <<5359, 3345, 12513, 1947>>, -53), D(0, <<10677, 7359, 12019, 1265>>, -54)>>,
       <<D(1, <<6925, 14831, 8390, 1958>>, -53), D(0, <<5696, 15887, 9084, 1197>>, -54)>>,
       <<D(1, <<15216, 3449, 10878, 1968>>, -53), D(0, <<3735, 13514, 173, 1129>>, -54)>>,
       <<D(1, <<16136, 7458, 3540, 1978>>, -53), D(0, <<1778, 1612, 2012, 1060>>, -54)>>,
       <<D(1, <<14870, 15846, 2713, 1987>>, -53), D(0, <<14856, 2962, 13503, 1981>>, -55)>>,
       <<D(1, <<1795, 1338, 8354, 1995>>, -53), D(0, <<1865, 6967, 13091, 1842>>, -55)>>,
       <<D(1, <<114, 2536, 4035, 2003>>, -53), D(0, <<6641, 12553, 3482, 1703>>, -55)>>,
       <<D(1, <<14007, 9442, 6102, 2010>>, -53), D(0, <<9011, 13785, 1757, 1563>>, -55)>>,
       <<D(1, <<7182, 12804, 14520, 2016>>, -53), D(0, <<13397, 14381, 8615, 1422>>, -55)>>,
       <<D(1, <<9298, 4287, 12873, 2022>>, -53), D(0, <<5224, 7841, 8374, 1281>>, -55)>>,
       <<D(1, <<5234, 9410, 1130, 2028>>, -53), D(0, <<7924, 6710, 1737, 1140>>, -55)>>,
       <<D(1, <<16004, 5768, 12034, 2032>>, -53), D(0, <<9432, 12605, 11588, 1996>>, -56)>>,
       <<D(1, <<10176, 5089, 12793, 2036>>, -53), D(0, <<6464, 11505, 9737, 1712>>, -56)>>,
       <<D(1, <<5533, 4192, 3387, 2040>>, -53), D(0, <<678, 8970, 15723, 1427>>, -56)>>,
       <<D(1, <<16370, 1475, 183, 2043>>, -53), D(0, <<4890, 13737, 14582, 1142>>, -56)>>,
       <<D(1, <<9754, 13387, 3166, 2045>>, -53), D(0, <<3215, 9151, 15476, 1714>>, -57)>>,
       <<D(1, <<1380, 8956, 12327, 2046>>, -53), D(0, <<8262, 10207, 9612, 1143>>, -57)>>,
       <<D(1, <<12169, 8150, 11273, 2047>>, -53), D(0, <<9365, 11815, 12466, 1143>>, -58)>>,
       <<D(1, <<0, 0, 0, 1024>>, -52), D(0, <<11873, 8172, 8031, 1712>>, -100)>>,
       <<D(1, <<12171, 8150, 11273, 2047>>, -53), D(1, <<5429, 11815, 12466, 1143>>, -58)>>,
       <<D(1, <<1385, 8956, 12327, 2046>>, -53), D(1, <<6295, 10207, 9612, 1143>>, -57)>>,
       <<D(1, <<9760, 13387, 3166, 2045>>, -53), D(1, <<1505, 9151, 15476, 1714>>, -57)>>,
       <<D(1, <<16379, 1475, 183, 2043>>, -53), D(1, <<3908, 13737, 14582, 1142>>, -56)>>,
       <<D(1, <<5543, 4192, 3387, 2040>>, -53), D(1, <<16209, 8969, 15723, 1427>>, -56)>>,
       <<D(1, <<10189, 5089, 12793, 2036>>, -53), D(1, <<5485, 11505, 9737, 1712>>, -56)>>,
       <<D(1, <<16019, 5768, 12034, 2032>>, -53), D(1, <<8455, 12605, 11588, 1996>>, -56)>>,
       <<D(1, <<5249, 9410, 1130, 2028>>, -53), D(1, <<7500, 6710, 1737, 1140>>, -55)>>,
       <<D(1, <<9317, 4287, 12873, 2022>>, -53), D(1, <<4738, 7841, 8374, 1281>>, -55)>>,
       <<D(1, <<7201, 12804, 14520, 2016>>, -53), D(1, <<12976, 14381, 8615, 1422>>, -55)>>,
       <<D(1, <<14030, 9442, 6102, 2010>>, -53), D(1, <<8528, 13785, 1757, 1563>>, -55)>>,
       <<D(1, <<140, 2536, 4035, 2003>>, -53), D(1, <<6159, 12553, 3482, 1703>>, -55)>>,
       <<D(1, <<1819, 1338, 8354, 1995>>, -53), D(1, <<1447, 6967, 13091, 1842>>, -55)>>,
       <<D(1, <<14900, 15846, 2713, 1987>>, -53), D(1, <<14378, 2962, 13503, 1981>>, -55)>>,
       <<D(1, <<16163, 7458, 3540, 1978>>, -53), D(1, <<1572, 1612, 2012, 1060>>, -54)>>,
       <<D(1, <<15250, 3449, 10878, 1968>>, -53), D(1, <<3498, 13514, 173, 1129>>, -54)>>,
       <<D(1, <<6956, 14831, 8390, 1958>>, -53), D(1, <<5491, 15887, 9084, 1197>>, -54)>>,
       <<D(1, <<5392, 3345, 12513, 1947>>, -53), D(1, <<10474, 7359, 12019, 1265>>, -54)>>,
       <<D(1, <<13535, 12282, 6914, 1936>>, -53), D(1, <<3428, 3, 8637, 1333>>, -54)>>,
       <<D(1, <<11573, 2376, 8036, 1924>>, -53), D(1, <<2924, 4648, 14983, 1400>>, -54)>>,
       <<D(1, <<14359, 15358, 15936, 1911>>, -53), D(1, <<4829, 16187, 14337, 1467>>, -54)>>,
       <<D(1, <<2927, 9823, 14295, 1898>>, -53), D(1, <<5649, 15254, 6366, 1534>>, -54)>>,
       <<D(1, <<9866, 8369, 3177, 1885>>, -53), D(1, <<16169, 2659, 7122, 1600>>, -54)>>,
       <<D(1, <<16297, 15357, 15418, 1870>>, -53), D(1, <<6777, 1048, 16274, 1665>>, -54)>>,
       <<D(1, <<6016, 183, 1939, 1856>>, -53), D(1, <<6122, 7390, 727, 1731>>, -54)>>,
       <<D(1, <<14567, 11608, 11963, 1840>>, -53), D(1, <<1358, 11000, 9309, 1795>>, -54)>>,
       <<D(1, <<11393, 13556, 12801, 1824>>, -53), D(1, <<7599, 11539, 8930, 1859>>, -54)>>,
       <<D(1, <<10018, 15796, 4532, 1808>>, -53), D(1, <<4119, 4241, 15655, 1922>>, -54)>>,
       <<D(1, <<14822, 8012, 3623, 1791>>, -53), D(1, <<8314, 14270, 12782, 1985>>, -54)>>,
       <<D(1, <<3280, 8545, 10158, 1773>>, -53), D(1, <<16254, 16383, 16383, 2047>>, -54)>>,
       <<D(1, <<11001, 14811, 7841, 1755>>, -53), D(1, <<7910, 1015, 13074, 1054>>, -53)>>,
       <<D(1, <<10598, 2870, 13148, 1736>>, -53), D(1, <<7413, 15027, 4499, 1085>>, -53)>>,
       <<D(1, <<12291, 8888, 9786, 1717>>, -53), D(1, <<14048, 7617, 6893, 1115>>, -53)>>,
       <<D(1, <<11969, 13987, 14236, 1697>>, -53), D(1, <<15593, 4167, 3720, 1145>>, -53)>>,
       <<D(1, <<1897, 9302, 10213, 1677>>, -53), D(1, <<2375, 8689, 11215, 1174>>, -53)>>,
       <<D(1, <<13521, 11871, 14201, 1656>>, -53), D(1, <<6694, 4565, 12848, 1203>>, -53)>>,
       <<D(1, <<14897, 14985, 9920, 1635>>, -53), D(1, <<16016, 4438, 8473, 1232>>, -53)>>,
       <<D(1, <<9205, 4049, 13861, 1613>>, -53), D(1, <<2316, 1783, 14331, 1260>>, -53)>>,
       <<D(1, <<9042, 5206, 9747, 1591>>, -53), D(1, <<14985, 4385, 13896, 1288>>, -53)>>,
       <<D(1, <<4203, 2877, 14074, 1568>>, -53), D(1, <<5602, 2288, 7029, 1316>>, -53)>>,
       <<D(1, <<7259, 4740, 10571, 1545>>, -53), D(1, <<4011, 1249, 9976, 1343>>, -53)>>,
       <<D(1, <<16109, 8398, 15738, 1521>>, -53), D(1, <<2984, 7048, 6217, 1370>>, -53)>>,
       <<D(1, <<10677, 801, 13310, 1497>>, -53), D(1, <<7157, 9778, 12003, 1396>>, -53)>>,
       <<D(1, <<3421, 6805, 3406, 1473>>, -53), D(1, <<13035, 897, 10819, 1422>>, -53)>>,
       <<D(1, <<15352, 6652, 2534, 1448>>, -53), D(1, <<15265, 6652, 2534, 1448>>, -53)>>,
       <<D(1, <<13124, 897, 10819, 1422>>, -53), D(1, <<3335, 6805, 3406, 1473>>, -53)>>,
       <<D(1, <<7247, 9778, 12003, 1396>>, -53), D(1, <<10593, 801, 13310, 1497>>, -53)>>,
       <<D(1, <<3076, 7048, 6217, 1370>>, -53), D(1, <<16026, 8398, 15738, 1521>>, -53)>>,
       <<D(1, <<4104, 1249, 9976, 1343>>, -53), D(1, <<7178, 4740, 10571, 1545>>, -53)>>,
       <<D(1, <<5696, 2288, 7029, 1316>>, -53), D(1, <<4123, 2877, 14074, 1568>>, -53)>>,
       <<D(1, <<15081, 4385, 13896, 1288>>, -53), D(1, <<8964, 5206, 9747, 1591>>, -53)>>,
       <<D(1, <<2413, 1783, 14331, 1260>>, -53), D(1, <<9129, 4049, 13861, 1613>>, -53)>>,
       <<D(1, <<16115, 4438, 8473, 1232>>, -53), D(1, <<14822, 14985, 9920, 1635>>, -53)>>,
       <<D(1, <<6793, 4565, 12848, 1203>>, -53), D(1, <<13448, 11871, 14201, 1656>>, -53)>>,
       <<D(1, <<2477, 8689, 11215, 1174>>, -53), D(1, <<1826, 9302, 10213, 1677>>, -53)>>,
       <<D(1, <<15695, 4167, 3720, 1145>>, -53), D(1, <<11900, 13987, 14236, 1697>>, -53)>>,
       <<D(1, <<14152, 7617, 6893, 1115>>, -53), D(1, <<12224, 8888, 9786, 1717>>, -53)>>,
       <<D(1, <<7518, 15027, 4499, 1085>>, -53), D(1, <<10533, 2870, 13148, 1736>>, -53)>>,
       <<D(1, <<8016, 1015, 13074, 1054>>, -53), D(1, <<10937, 14811, 7841, 1755>>, -53)>>,
       <<D(1, <<42, 0, 0, 1024>>, -53), D(1, <<3218, 8545, 10158, 1773>>, -53)>>,
       <<D(1, <<8531, 14270, 12782, 1985>>, -54), D(1, <<14762, 8012, 3623, 1791>>, -53)>>,
       <<D(1, <<4337, 4241, 15655, 1922>>, -54), D(1, <<9960, 15796, 4532, 1808>>, -53)>>,
       <<D(1, <<7820, 11539, 8930, 1859>>, -54), D(1, <<11337, 13556, 12801, 1824>>, -53)>>,
       <<D(1, <<1580, 11000, 9309, 1795>>, -54), D(1, <<14513, 11608, 11963, 1840>>, -53)>>,
       <<D(1, <<6346, 7390, 727, 1731>>, -54), D(1, <<5964, 183, 1939, 1856>>, -53)>>,
       <<D(1, <<7002, 1048, 16274, 1665>>, -54), D(1, <<16247, 15357, 15418, 1870>>, -53)>>,
       <<D(1, <<12, 2660, 7122, 1600>>, -54), D(1, <<9818, 8369, 3177, 1885>>, -53)>>,
       <<D(1, <<5878, 15254, 6366, 1534>>, -54), D(1, <<2880, 9823, 14295, 1898>>, -53)>>,
       <<D(1, <<5060, 16187, 14337, 1467>>, -54), D(1, <<14315, 15358, 15936, 1911>>, -53)>>,
       <<D(1, <<3156, 4648, 14983, 1400>>, -54), D(1, <<11530, 2376, 8036, 1924>>, -53)>>,
       <<D(1, <<3661, 3, 8637, 1333>>, -54), D(1, <<13495, 12282, 6914, 1936>>, -53)>>,
       <<D(1, <<10709, 7359, 12019, 1265>>, -54), D(1, <<5354, 3345, 12513, 1947>>, -53)>>,
       <<D(1, <<5667, 15887, 9084, 1197>>, -54), D(1, <<6929, 14831, 8390, 1958>>, -53)>>,
       <<D(1, <<3736, 13514, 173, 1129>>, -54), D(1, <<15216, 3449, 10878, 1968>>, -53)>>,
       <<D(1, <<1810, 1612, 2012, 1060>>, -54), D(1, <<16131, 7458, 3540, 1978>>, -53)>>,
       <<D(1, <<14920, 2962, 13503, 1981>>, -55), D(1, <<14866, 15846, 2713, 1987>>, -53)>>,
       <<D(1, <<1867, 6967, 13091, 1842>>, -55), D(1, <<1794, 1338, 8354, 1995>>, -53)>>,
       <<D(1, <<6643, 12553, 3482, 1703>>, -55), D(1, <<114, 2536, 4035, 2003>>, -53)>>,
       <<D(1, <<9076, 13785, 1757, 1563>>, -55), D(1, <<14004, 9442, 6102, 2010>>, -53)>>,
       <<D(1, <<13399, 14381, 8615, 1422>>, -55), D(1, <<7182, 12804, 14520, 2016>>, -53)>>,
       <<D(1, <<5226, 7841, 8374, 1281>>, -55), D(1, <<9298, 4287, 12873, 2022>>, -53)>>,
       <<D(1, <<7990, 6710, 1737, 1140>>, -55), D(1, <<5232, 9410, 1130, 2028>>, -53)>>,
       <<D(1, <<9309, 12605, 11588, 1996>>, -56), D(1, <<16005, 5768, 12034, 2032>>, -53)>>,
       <<D(1, <<6468, 11505, 9737, 1712>>, -56), D(1, <<10176, 5089, 12793, 2036>>, -53)>>,
       <<D(1, <<810, 8970, 15723, 1427>>, -56), D(1, <<5532, 4192, 3387, 2040>>, -53)>>,
       <<D(1, <<5022, 13737, 14582, 1142>>, -56), D(1, <<16369, 1475, 183, 2043>>, -53)>>,
       <<D(1, <<3224, 9151, 15476, 1714>>, -57), D(1, <<9754, 13387, 3166, 2045>>, -53)>>,
       <<D(1, <<8271, 10207, 9612, 1143>>, -57), D(1, <<1380, 8956, 12327, 2046>>, -53)>>,
       <<D(1, <<9895, 11815, 12466, 1143>>, -58), D(1, <<12168, 8150, 11273, 2047>>, -53)>>,
       <<D(1, <<16337, 797, 2281, 1730>>, -100), D(1, <<0, 0, 0, 1024>>, -52)>>,
       <<D(0, <<5411, 11815, 12466, 1143>>, -58), D(1, <<12171, 8150, 11273, 2047>>, -53)>>,
       <<D(0, <<6030, 10207, 9612, 1143>>, -57), D(1, <<1385, 8956, 12327, 2046>>, -53)>>,
       <<D(0, <<1496, 9151, 15476, 1714>>, -57), D(1, <<9760, 13387, 3166, 2045>>, -53)>>,
       <<D(0, <<3903, 13737, 14582, 1142>>, -56), D(1, <<16379, 1475, 183, 2043>>, -53)>>,
       <<D(0, <<16077, 8969, 15723, 1427>>, -56), D(1, <<5544, 4192, 3387, 2040>>, -53)>>,
       <<D(0, <<5353, 11505, 9737, 1712>>, -56), D(1, <<10191, 5089, 12793, 2036>>, -53)>>,
       <<D(0, <<8450, 12605, 11588, 1996>>, -56), D(1, <<16019, 5768, 12034, 2032>>, -53)>>,
       <<D(0, <<7435, 6710, 1737, 1140>>, -55), D(1, <<5251, 9410, 1130, 2028>>, -53)>>,
       <<D(0, <<4672, 7841, 8374, 1281>>, -55), D(1, <<9320, 4287, 12873, 2022>>, -53)>>,
       <<D(0, <<12973, 14381, 8615, 1422>>, -55), D(1, <<7201, 12804, 14520, 2016>>, -53)>>,
       <<D(0, <<8525, 13785, 1757, 1563>>, -55), D(1, <<14030, 9442, 6102, 2010>>, -53)>>,
       <<D(0, <<6095, 12553, 3482, 1703>>, -55), D(1, <<143, 2536, 4035, 2003>>, -53)>>,
       <<D(0, <<1445, 6967, 13091, 1842>>, -55), D(1, <<1819, 1338, 8354, 1995>>, -53)>>,
       <<D(0, <<14376, 2962, 13503, 1981>>, -55), D(1, <<14900, 15846, 2713, 1987>>, -53)>>,
       <<D(0, <<1540, 1612, 2012, 1060>>, -54), D(1, <<16168, 7458, 3540, 1978>>, -53)>>,
       <<D(0, <<3528, 13514, 173, 1129>>, -54), D(1, <<15246, 3449, 10878, 1968>>, -53)>>,
       <<D(0, <<5460, 15887, 9084, 1197>>, -54), D(1, <<6961, 14831, 8390, 1958>>, -53)>>,
       <<D(0, <<10442, 7359, 12019, 1265>>, -54), D(1, <<5397, 3345, 12513, 1947>>, -53)>>,
       <<D(0, <<3396, 3, 8637, 1333>>, -54), D(1, <<13541, 12282, 6914, 1936>>, -53)>>,
       <<D(0, <<2953, 4648, 14983, 1400>>, -54), D(1, <<11567, 2376, 8036, 1924>>, -53)>>,
       <<D(0, <<4798, 16187, 14337, 1467>>, -54), D(1, <<14365, 15358, 15936, 1911>>, -53)>>,
       <<D(0, <<5618, 15254, 6366, 1534>>, -54), D(1, <<2933, 9823, 14295, 1898>>, -53)>>,
       <<D(0, <<16197, 2659, 7122, 1600>>, -54), D(1, <<9860, 8369, 3177, 1885>>, -53)>>,
       <<D(0, <<6746, 1048, 16274, 1665>>, -54), D(1, <<16304, 15357, 15418, 1870>>, -53)>>,
       <<D(0, <<6092, 7390, 727, 1731>>, -54), D(1, <<6023, 183, 1939, 1856>>, -53)>>,
       <<D(0, <<1386, 11000, 9309, 1795>>, -54), D(1, <<14561, 11608, 11963, 1840>>, -53)>>,
       <<D(0, <<7570, 11539, 8930, 1859>>, -54), D(1, <<11401, 13556, 12801, 1824>>, -53)>>,
       <<D(0, <<4089, 4241, 15655, 1922>>, -54), D(1, <<10025, 15796, 4532, 1808>>, -53)>>,
       <<D(0, <<8285, 14270, 12782, 1985>>, -54), D(1, <<14830, 8012, 3623, 1791>>, -53)>>,
       <<D(0, <<16281, 16383, 16383, 2047>>, -54), D(1, <<3272, 8545, 10158, 1773>>, -53)>>,
       <<D(0, <<7896, 1015, 13074, 1054>>, -53), D(1, <<11009, 14811, 7841, 1755>>, -53)>>,
       <<D(0, <<7399, 15027, 4499, 1085>>, -53), D(1, <<10607, 2870, 13148, 1736>>, -53)>>,
       <<D(0, <<14061, 7617, 6893, 1115>>, -53), D(1, <<12283, 8888, 9786, 1717>>, -53)>>,
       <<D(0, <<15579, 4167, 3720, 1145>>, -53), D(1, <<11978, 13987, 14236, 1697>>, -53)>>,
       <<D(0, <<2362, 8689, 11215, 1174>>, -53), D(1, <<1907, 9302, 10213, 1677>>, -53)>>,
       <<D(0, <<6706, 4565, 12848, 1203>>, -53), D(1, <<13512, 11871, 14201, 1656>>, -53)>>,
       <<D(0, <<16003, 4438, 8473, 1232>>, -53), D(1, <<14907, 14985, 9920, 1635>>, -53)>>,
       <<D(0, <<2303, 1783, 14331, 1260>>, -53), D(1, <<9215, 4049, 13861, 1613>>, -53)>>,
       <<D(0, <<14997, 4385, 13896, 1288>>, -53), D(1, <<9032, 5206, 9747, 1591>>, -53)>>,
       <<D(0, <<5614, 2288, 7029, 1316>>, -53), D(1, <<4193, 2877, 14074, 1568>>, -53)>>,
       <<D(0, <<3998, 1249, 9976, 1343>>, -53), D(1, <<7270, 4740, 10571, 1545>>, -53)>>,
       <<D(0, <<2972, 7048, 6217, 1370>>, -53), D(1, <<16120, 8398, 15738, 1521>>, -53)>>,
       <<D(0, <<7168, 9778, 12003, 1396>>, -53), D(1, <<10666, 801, 13310, 1497>>, -53)>>,
       <<D(0, <<13023, 897, 10819, 1422>>, -53), D(1, <<3432, 6805, 3406, 1473>>, -53)>>,
       <<D(0, <<15253, 6652, 2534, 1448>>, -53), D(1, <<15364, 6652, 2534, 1448>>, -53)>>,
       <<D(0, <<3346, 6805, 3406, 1473>>, -53), D(1, <<13113, 897, 10819, 1422>>, -53)>>,
       <<D(0, <<10581, 801, 13310, 1497>>, -53), D(1, <<7259, 9778, 12003, 1396>>, -53)>>,
       <<D(0, <<16015, 8398, 15738, 1521>>, -53), D(1, <<3088, 7048, 6217, 1370>>, -53)>>,
       <<D(0, <<7188, 4740, 10571, 1545>>, -53), D(1, <<4092, 1249, 9976, 1343>>, -53)>>,
       <<D(0, <<4113, 2877, 14074, 1568>>, -53), D(1, <<5709, 2288, 7029, 1316>>, -53)>>,
       <<D(0, <<8954, 5206, 9747, 1591>>, -53), D(1, <<15094, 4385, 13896, 1288>>, -53)>>,
       <<D(0, <<9118, 4049, 13861, 1613>>, -53), D(1, <<2426, 1783, 14331, 1260>>, -53)>>,
       <<D(0, <<14832, 14985, 9920, 1635>>, -53), D(1, <<16103, 4438, 8473, 1232>>, -53)>>,
       <<D(0, <<13438, 11871, 14201, 1656>>, -53), D(1, <<6807, 4565, 12848, 1203>>, -53)>>,
       <<D(0, <<1817, 9302, 10213, 1677>>, -53), D(1, <<2490, 8689, 11215, 1174>>, -53)>>,
       <<D(0, <<11908, 13987, 14236, 1697>>, -53), D(1, <<15682, 4167, 3720, 1145>>, -53)>>,
       <<D(0, <<12215, 8888, 9786, 1717>>, -53), D(1, <<14166, 7617, 6893, 1115>>, -53)>>,
       <<D(0, <<10524, 2870, 13148, 1736>>, -53), D(1, <<7532, 15027, 4499, 1085>>, -53)>>,
       <<D(0, <<10945, 14811, 7841, 1755>>, -53), D(1, <<8003, 1015, 13074, 1054>>, -53)>>,
       <<D(0, <<3210, 8545, 10158, 1773>>, -53), D(1, <<56, 0, 0, 1024>>, -53)>>,
       <<D(0, <<14754, 8012, 3623, 1791>>, -53), D(1, <<8559, 14270, 12782, 1985>>, -54)>>,
       <<D(0, <<9967, 15796, 4532, 1808>>, -53), D(1, <<4309, 4241, 15655, 1922>>, -54)>>,
       <<D(0, <<11344, 13556, 12801, 1824>>, -53), D(1, <<7792, 11539, 8930, 1859>>, -54)>>,
       <<D(0, <<14506, 11608, 11963, 1840>>, -53), D(1, <<1610, 11000, 9309, 1795>>, -54)>>,
       <<D(0, <<5957, 183, 1939, 1856>>, -53), D(1, <<6376, 7390, 727, 1731>>, -54)>>,
       <<D(0, <<16253, 15357, 15418, 1870>>, -53), D(1, <<6974, 1048, 16274, 1665>>, -54)>>,
       <<D(0, <<9811, 8369, 3177, 1885>>, -53), D(1, <<43, 2660, 7122, 1600>>, -54)>>,
       <<D(0, <<2874, 9823, 14295, 1898>>, -53), D(1, <<5909, 15254, 6366, 1534>>, -54)>>,
       <<D(0, <<14321, 15358, 15936, 1911>>, -53), D(1, <<5031, 16187, 14337, 1467>>, -54)>>,
       <<D(0, <<11525, 2376, 8036, 1924>>, -53), D(1, <<3187, 4648, 14983, 1400>>, -54)>>,
       <<D(0, <<13490, 12282, 6914, 1936>>, -53), D(1, <<3693, 3, 8637, 1333>>, -54)>>,
       <<D(0, <<5359, 3345, 12513, 1947>>, -53), D(1, <<10679, 7359, 12019, 1265>>, -54)>>,
       <<D(0, <<6925, 14831, 8390, 1958>>, -53), D(1, <<5698, 15887, 9084, 1197>>, -54)>>,
       <<D(0, <<15211, 3449, 10878, 1968>>, -53), D(1, <<3768, 13514, 173, 1129>>, -54)>>,
       <<D(0, <<16127, 7458, 3540, 1978>>, -53), D(1, <<1842, 1612, 2012, 1060>>, -54)>>,
       <<D(0, <<14870, 15846, 2713, 1987>>, -53), D(1, <<14860, 2962, 13503, 1981>>, -55)>>,
       <<D(0, <<1791, 1338, 8354, 1995>>, -53), D(1, <<1931, 6967, 13091, 1842>>, -55)>>,
       <<D(0, <<111, 2536, 4035, 2003>>, -53), D(1, <<6708, 12553, 3482, 1703>>, -55)>>,
       <<D(0, <<14007, 9442, 6102, 2010>>, -53), D(1, <<9015, 13785, 1757, 1563>>, -55)>>,
       <<D(0, <<7179, 12804, 14520, 2016>>, -53), D(1, <<13465, 14381, 8615, 1422>>, -55)>>,
       <<D(0, <<9295, 4287, 12873, 2022>>, -53), D(1, <<5291, 7841, 8374, 1281>>, -55)>>,
       <<D(0, <<5234, 9410, 1130, 2028>>, -53), D(1, <<7928, 6710, 1737, 1140>>, -55)>>,
       <<D(0, <<16003, 5768, 12034, 2032>>, -53), D(1, <<9440, 12605, 11588, 1996>>, -56)>>,
       <<D(0, <<10174, 5089, 12793, 2036>>, -53), D(1, <<6600, 11505, 9737, 1712>>, -56)>>,
       <<D(0, <<5530, 4192, 3387, 2040>>, -53), D(1, <<942, 8970, 15723, 1427>>, -56)>>,
       <<D(0, <<16370, 1475, 183, 2043>>, -53), D(1, <<4899, 13737, 14582, 1142>>, -56)>>,
       <<D(0, <<9754, 13387, 3166, 2045>>, -53), D(1, <<3488, 9151, 15476, 1714>>, -57)>>,
       <<D(0, <<1380, 8956, 12327, 2046>>, -53), D(1, <<8535, 10207, 9612, 1143>>, -57)>>,
       <<D(0, <<12169, 8150, 11273, 2047>>, -53), D(1, <<9401, 11815, 12466, 1143>>, -58)>>,
       <<D(0, <<0, 0, 0, 1024>>, -52), D(1, <<10401, 4903, 14649, 1129>>, -99)>>
    >>

\* sin is odd and cos even: p is <<the <<cos, sin>> of |angle|, whether the
\* angle is negative>>
SignedTrigF[p \in Vecs \X BOOLEAN] == IF p[2] THEN <<p[1][1], FNeg(p[1][2])>> ELSE p[1]

\* <<cos, sin>> of the angle of pg.transform.rotate, which takes them of the
\* angle as it is given, full turns included; the angle is within the rows of
\* ImageCosSin
ImageTrig(deg) ==
    IF deg = 0 THEN <<FromInt(1), FZero(0)>>
    ELSE SignedTrigF[<<ImageCosSin[IF deg < 0 THEN -deg ELSE deg], deg < 0>>]

\* <<|a + b|, |a - b|, |-a + b|, |-a - b|>>
Abs4F[p \in Doubles \X Doubles] ==
    [i \in 1 .. 4 |->
        FAbs(FAdd(IF i > 2 THEN FNeg(p[1]) ELSE p[1],
                  IF i % 2 = 0 THEN FNeg(p[2]) ELSE p[2]))]

\* the largest of x from the left: p is <<x, the largest so far, the number
\* of elements taken>>
MaxFromF[p \in Seq(Doubles) \X Doubles \X Nat] ==
    IF p[3] = Len(p[1]) THEN p[2]
    ELSE MaxFromF[<<p[1], FMax(p[2], p[1][p[3] + 1]), p[3] + 1>>]

\* MAX(MAX(MAX(fabs(a + b), fabs(a - b)), fabs(-a + b)), fabs(-a - b))
MaxAbs4F[p \in Doubles \X Doubles] == MaxFromF[<<Abs4F[p], Abs4F[p][1], 1>>]

\* 1.0 in the 16.16 fixed point of the pixel loop, and a half
Fixed16 == 65536
Half16 == 32768

\* the products of the size with the cosine and the sine: <<cos * w,
\* sin * h, sin * w, cos * h>> for p = <<<<w, h>>, <<cos, sin>>>>
SizeProductsF[p \in (Int \X Int) \X Vecs] ==
    [i \in 1 .. 4 |->
        FMul(p[2][IF i = 1 \/ i = 4 THEN 1 ELSE 2], FromInt(p[1][IF i % 2 = 1 THEN 1 ELSE 2]))]

\* p is <<the four products, <<cos, sin>>>>
RotatedSizeF[p \in Seq(Doubles) \X Vecs] ==
    [i \in 1 .. 6 |->
        IF i <= 2 THEN PyInt(MaxAbs4F[<<p[1][2 * i - 1], p[1][2 * i]>>])
        ELSE IF i <= 4 THEN PyInt(FMul(p[2][5 - i], FromInt(Fixed16)))
        ELSE p[2][i - 4]]

\* the size of the rotated surface, and the sine and cosine in fixed point:
\* <<nxmax, nymax, isin, icos, cos, sin>>
RotatedSize(img, deg) ==
    RotatedSizeF[<<SizeProductsF[<<<<img.w, img.h>>, ImageTrig(deg)>>], ImageTrig(deg)>>]

\* the source position, in fixed point, of the first pixel of row 0, less the
\* row's share: <<ax, ay>> for a target of nw x nh
RotatedOrigin(sz) ==
    [i \in 1 .. 2 |->
        sz[i] * Half16 - PyInt(FMul(sz[i + 4], FromInt((sz[1] - 1) * Half16)))]

\* the pixel loop of the rotation: target pixel (x, y) shows the source pixel
\* at (dx >> 16, dy >> 16), or the background where that is off the source.
\* The background is the source's corner colour with its alpha taken away:
\* clear if the surface has per-pixel alpha, opaque if it has not.
RotatedPixels(img, sz, org) ==
    [w |-> sz[1], h |-> sz[2], alpha |-> img.alpha,
     clear |-> {p \in Pixels(sz[1], sz[2]) :
        LET dx == org[1] + sz[3] * (sz[2] \div 2 - p[2])
                  + (img.w - sz[1]) * Half16 + p[1] * sz[4]
            dy == org[2] - sz[4] * (sz[2] \div 2 - p[2])
                  + (img.h - sz[2]) * Half16 + p[1] * sz[3]
        IN IF dx < 0 \/ dy < 0 \/ dx > img.w * Fixed16 - 1 \/ dy > img.h * Fixed16 - 1
           THEN img.alpha
           ELSE <<dx \div Fixed16, dy \div Fixed16>> \in img.clear}]

\* pg.transform.rotate by an angle that is no multiple of 90 degrees
RotateFree(img, deg) ==
    Once(LAMBDA sz : Once(LAMBDA org : RotatedPixels(img, sz, org), RotatedOrigin(sz)),
         RotatedSize(img, deg))

\* pg.transform.rotate(img, deg)
RotateImage(img, deg) ==
    Once(LAMBDA i : IF deg % 90 = 0 THEN RotateQuarter(i, deg) ELSE RotateFree(i, deg), img)

\* pg.mask.from_surface(img): a bit is set where alpha is above the threshold
FromSurface(img) == [w |-> img.w, h |-> img.h, unset |-> img.clear]

IsSet(m, x, y) ==
    /\ 0 <= x /\ x < m.w
    /\ 0 <= y /\ y < m.h
    /\ <<x, y>> \notin m.unset

\* Mask.overlap(other, offset) is not None
Overlap(m, other, offset) ==
    \E p \in Pixels(m.w, m.h) :
        /\ IsSet(m, p[1], p[2])
        /\ IsSet(other, p[1] - offset[1], p[2] - offset[2])

----------------------------------------------------------------------------
(* Python lists *)

\* [None] * n: the empty list when n <= 0
Nones(n) == [k \in 1 .. n |-> 0]

\* whether lst[i] is an element of a list of length len
ValidIndex(len, i) == -len <= i /\ i < len

\* the 1-based place of lst[i]
Place(len, i) == IF i >= 0 THEN i + 1 ELSE len + i + 1

----------------------------------------------------------------------------
(* World *)

\* World.__init__: world_size[0] columns of world_size[1] Nones
NewTileArray(world_size) == [c \in 1 .. world_size[1] |-> Nones(world_size[2])]

\* add_tile testing only its column
OutOfBounds_ColOnly(col, row) == col < 0

\* add_tile's test of its indices
OutOfBounds(col, row) == col < 0 \/ row < 0

\* "for c in self.tile_array: c += [None] * (row - len(self.tile_array[0]) + 1)",
\* from the i-th column on; len(self.tile_array[0]) is read anew for each column
RECURSIVE ExtendRowsFrom(_, _, _)
ExtendRowsFrom(arr, row, i) ==
    IF i > Len(arr) THEN arr
    ELSE ExtendRowsFrom([arr EXCEPT ![i] = @ \o Nones(row - Len(arr[1]) + 1)],
                        row, i + 1)

ExtendRows(arr, row) == ExtendRowsFrom(arr, row, 1)

\* "for _ in range(n): self.tile_array.append([None] * len(self.tile_array[0]))"
RECURSIVE AppendCols(_, _)
AppendCols(arr, n) ==
    IF n <= 0 THEN arr
    ELSE AppendCols(Append(arr, Nones(Len(arr[1]))), n - 1)

\* World.add_tile up to its redraw: the tile array and tile group it leaves,
\* and the error it raises (None when it returns)
AddTile(arr, tiles, t, col, row) ==
    IF OutOfBounds(col, row)
    THEN [arr |-> arr, tiles |-> tiles, err |-> "IndexError"]
    ELSE IF Len(arr) = 0
    THEN [arr |-> arr, tiles |-> tiles, err |-> "IndexError"]
    ELSE LET a1 == IF row > Len(arr[1]) - 1 THEN ExtendRows(arr, row) ELSE arr
             a2 == IF col > Len(a1) - 1
                   THEN AppendCols(a1, col - Len(a1) + 1) ELSE a1
             g == tiles \cup {t}
         IN IF ValidIndex(Len(a2), col)
               /\ ValidIndex(Len(a2[Place(Len(a2), col)]), row)
            THEN LET c == Place(Len(a2), col)
                     r == Place(Len(a2[c]), row)
                 IN [arr |-> [a2 EXCEPT ![c][r] = t], tiles |-> g, err |-> None]
            ELSE [arr |-> a2, tiles |-> g, err |-> "IndexError"]

\* World.image before the first redraw: the attribute is not set
NoImage == [drawn |-> FALSE, w |-> 0, h |-> 0, cells |-> <<>>, sprites |-> {}]

\* World.redraw: a surface of len(tile_array[0]) * TILE_SIZE by
\* len(tile_array) * TILE_SIZE, each cell blitted at (colindex * TILE_SIZE,
\* rowindex * TILE_SIZE), then the objects drawn at their rects
Redraw(arr, objs, es) ==
    [drawn |-> TRUE,
     w |-> Len(arr[1]) * TILE_SIZE,
     h |-> Len(arr) * TILE_SIZE,
     cells |-> arr,
     sprites |-> {<<id, es[id].rect.left, es[id].rect.top>> : id \in objs}]

----------------------------------------------------------------------------
(* Object, Entity, ControlledCar *)

ScaleNone == [t |-> "none", n |-> 0, wh |-> <<0, 0>>]
ScaleInt(n) == [t |-> "int", n |-> n, wh |-> <<0, 0>>]
ScaleTuple(w, h) == [t |-> "tuple", n |-> 0, wh |-> <<w, h>>]

ImgNone == [t |-> "none", surf |-> Surface(0, 0)]
ImgFile(surf) == [t |-> "file", surf |-> surf]

\* Object.__init__: self.scale
ObjectScale(scale) == IF scale.t = "int" THEN ScaleTuple(scale.n, scale.n) ELSE scale

\* Object.__init__: self.image
ObjectImage(img, scale) ==
    IF img.t = "none"
    THEN IF ObjectScale(scale).t = "tuple"
         THEN Surface(ObjectScale(scale).wh[1], ObjectScale(scale).wh[2])
         ELSE Surface(0, 0)
    ELSE IF ObjectScale(scale).t = "tuple"
         THEN ScaleImage(img.surf, ObjectScale(scale).wh[1], ObjectScale(scale).wh[2])
         ELSE img.surf

\* Object.__init__ up to its registration with the world; pos is a pair of
\* doubles
NewObject(pos, layers, img, scale) ==
    Once(LAMBDA surf :
            [kind |-> "Object",
             scale |-> ObjectScale(scale),
             image |-> surf,
             rect |-> SetTopLeft(Rect(0, 0, surf.w, surf.h), PyInt(pos[1]), PyInt(pos[2])),
             collision_layers |-> layers],
         ObjectImage(img, scale))

\* Object.__init__ then Entity.__init__
NewEntity(pos, layers, img, scale) ==
    Once(LAMBDA o :
            [kind |-> "Entity",
             scale |-> o.scale,
             image |-> o.image,
             rect |-> o.rect,
             collision_layers |-> o.collision_layers,
             true_pos |-> pos,
             original_image |-> o.image,
             velocity |-> VZero,
             angle |-> 0,
             friction |-> EntityFriction,
             mass |-> EntityMass,
             mask |-> FromSurface(o.image)],
         NewObject(pos, layers, img, scale))

\* ControlledCar.__init__
NewControlledCar(pos, layers, img, scale) ==
    [NewEntity(pos, layers, img, scale) EXCEPT
        !.kind = "ControlledCar", !.friction = CarFriction]

\* Entity.accelerate
Accelerate(e, magnitude) ==
    Once(LAMBDA x :
            [x EXCEPT !.velocity = VAdd(@, Rotate(<<magnitude, FZero(0)>>, x.angle))],
         e)

\* Entity.brake
Brake(e, magnitude) ==
    Once(LAMBDA x :
            IF FGt(Magnitude(x.velocity), EPSILON)
            THEN [x EXCEPT !.velocity =
                     ScaleToLength(@, MaxZero(FSub(Magnitude(x.velocity), magnitude)))]
            ELSE [x EXCEPT !.velocity = VZero],
         e)

\* turn comparing with >= instead of >
Moving_Inclusive(e) == FGe(Magnitude(e.velocity), EPSILON)

\* the test of Entity.turn: whether the entity is moving
Moving(e) == FGt(Magnitude(e.velocity), EPSILON)

\* the body of Entity.turn, img being the original image rotated
Turned(e, angle, img) ==
    [e EXCEPT !.angle = @ + angle,
              !.velocity = Rotate(@, angle),
              !.image = img,
              !.rect = SetSize(@, img.w, img.h),
              !.mask = FromSurface(img)]

\* Entity.turn
Turn(e, angle) ==
    Once(LAMBDA x :
            IF Moving(x)
            THEN Once(LAMBDA img : Turned(x, angle, img),
                      RotateImage(x.original_image, -(x.angle + angle)))
            ELSE x,
         e)

\* friction adding its two terms instead of taking the larger
Friction_Sum(e) ==
    FAdd(FMul(e.friction, FromInt(e.mass)),
         FDiv(FMul(FMul(e.friction, FromInt(e.mass)), Magnitude(e.velocity)), FromInt(3)))

\* the friction of one tick:
\* max(friction * mass, friction * mass * velocity.magnitude() / 3)
Friction(e) ==
    FMax(FMul(e.friction, FromInt(e.mass)),
         FDiv(FMul(FMul(e.friction, FromInt(e.mass)), Magnitude(e.velocity)), FromInt(3)))

\* "self.true_pos += self.velocity" and the rect centred on int(true_pos)
Moved(e) ==
    Once(LAMBDA tp :
            [e EXCEPT !.true_pos = tp,
                      !.rect = SetCenter(@, PyInt(tp[1]), PyInt(tp[2]))],
         VAdd(e.true_pos, e.velocity))

\* "Handle Friction" of Entity.update, f being the friction of the tick
Slowed(e, f) ==
    IF FLe(FSub(FAbs(Magnitude(e.velocity)), f), FZero(0))
    THEN [e EXCEPT !.velocity = VZero]
    ELSE Accelerate(e, FNeg(f))

\* Entity.update
EntityUpdate(e, tk) ==
    Once(LAMBDA x :
            IF ~tk THEN x
            ELSE IF ~IsZero(Magnitude(x.velocity)) /\ FGt(x.friction, FZero(0))
            THEN Once(LAMBDA f : Slowed(Moved(x), f), Friction(x))
            ELSE Moved(x),
         e)

\* pg.key.get_pressed(), the four keys ControlledCar.update reads
Keys(up, down, right, left) ==
    [up |-> up, down |-> down, right |-> right, left |-> left]

NoKeys == Keys(FALSE, FALSE, FALSE, FALSE)

\* "Handle input" of ControlledCar.update: the four keys in the code's order,
\* each acting on what the one before it left
Controls(e, keys) ==
    Once(LAMBDA e3 : IF keys.left THEN Turn(e3, -CarHandling) ELSE e3,
         Once(LAMBDA e2 : IF keys.right THEN Turn(e2, CarHandling) ELSE e2,
              Once(LAMBDA e1 : IF keys.down THEN Brake(e1, CarBraking) ELSE e1,
                   IF keys.up THEN Accelerate(e, CarAcceleration) ELSE e)))

\* ControlledCar.update reading the keys before super().update(tick)
CarUpdate_ControlsFirst(e, tk, keys) ==
    EntityUpdate(IF tk THEN Controls(e, keys) ELSE e, tk)

\* ControlledCar.update
CarUpdate(e, tk, keys) ==
    Once(LAMBDA x : IF tk THEN Controls(x, keys) ELSE x, EntityUpdate(e, tk))

\* obj.update(tick), dispatched on the object's class; Object has
\* pg.sprite.Sprite's update, which does nothing
Update(e, tk, keys) ==
    Once(LAMBDA x :
            IF x.kind = "ControlledCar" THEN CarUpdate(x, tk, keys)
            ELSE IF x.kind = "Entity" THEN EntityUpdate(x, tk)
            ELSE x,
         e)

\* collide_entity without the test of the layers
CollideEntity_NoLayers(e, other) ==
    Overlap(e.mask, other.mask,
            <<other.rect.left - e.rect.left, other.rect.top - e.rect.top>>)

\* collide_entity requiring equal layer sets instead of a shared layer
CollideEntity_SameLayers(e, other) ==
    IF e.collision_layers = other.collision_layers
    THEN Overlap(e.mask, other.mask,
                 <<other.rect.left - e.rect.left, other.rect.top - e.rect.top>>)
    ELSE FALSE

\* collide_entity requiring every layer of self to be one of other's
CollideEntity_LayersWithin(e, other) ==
    IF e.collision_layers # {} /\ e.collision_layers \subseteq other.collision_layers
    THEN Overlap(e.mask, other.mask,
                 <<other.rect.left - e.rect.left, other.rect.top - e.rect.top>>)
    ELSE FALSE

\* Entity.collide_entity
CollideEntity(e, other) ==
    IF e.collision_layers \cap other.collision_layers # {}
    THEN Overlap(e.mask, other.mask,
                 <<other.rect.left - e.rect.left, other.rect.top - e.rect.top>>)
    ELSE FALSE

\* group_objects.update passing True whatever tick is
UpdateObjects_EveryFrame(es, objs, tk, keys) ==
    [id \in DOMAIN es |-> IF id \in objs THEN Update(es[id], TRUE, keys) ELSE es[id]]

\* World.update's "self.group_objects.update(tick)"
UpdateObjects(es, objs, tk, keys) ==
    [id \in DOMAIN es |-> IF id \in objs THEN Update(es[id], tk, keys) ELSE es[id]]

\* World.add_object: "self.group_objects.add(obj)"
AddObject(objs, id) == objs \cup {id}

----------------------------------------------------------------------------
(* Camera *)

\* Camera.__init__; pos is the id of the Vector2 object handed in
NewCamera(size, pos, focus_object, smoothing) ==
    [size |-> size, pos |-> pos, focus_object |-> focus_object,
     smoothing |-> smoothing,
     image |-> [drawn |-> FALSE, w |-> 0, h |-> 0, left |-> 0, top |-> 0]]

\* pg.Vector2(self.focus_object.rect.center)
FocusCenter(c, es) ==
    Vec(RectCenter(es[c.focus_object].rect)[1], RectCenter(es[c.focus_object].rect)[2])

\* Camera.update with d taken from the focus to the camera
CameraUpdate_Away(heap, c, es) ==
    IF c.focus_object # None
    THEN [heap EXCEPT ![c.pos] =
            VAdd(@, VScale(VSub(@, FocusCenter(c, es)), c.smoothing))]
    ELSE heap

\* Camera.update: the Vector2 objects after "self.pos += d * self.smoothing",
\* which adds to the object self.pos refers to
CameraUpdate(heap, c, es) ==
    IF c.focus_object # None
    THEN [heap EXCEPT ![c.pos] =
            VAdd(@, VScale(VSub(FocusCenter(c, es), @), c.smoothing))]
    ELSE heap

\* Camera.get_frame: a surface of self.size showing the world image's area
\* centred at int(pos)
GetFrame(heap, c) ==
    [c EXCEPT !.image =
        [drawn |-> TRUE, w |-> c.size[1], h |-> c.size[2],
         left |-> PyInt(heap[c.pos][1]) - c.size[1] \div 2,
         top |-> PyInt(heap[c.pos][2]) - c.size[2] \div 2]]

----------------------------------------------------------------------------
(* Values the specifications share *)

\* the default of Camera.__init__'s pos, one object made when the class is read
DefaultPos == Vec(450, 300)

NoEnts == [id \in {} |-> 0]
NoCams == [id \in {} |-> 0]
NoHeap == "default" :> DefaultPos

Call(op, args, err, ret) == [op |-> op, args |-> args, err |-> err, ret |-> ret]

NoCall == Call("init", <<>>, None, None)

\* the game loop before its first frame (also: no game loop running)
LoopIdle ==
    /\ tst = 0
    /\ tick = FALSE
    /\ running = TRUE
    /\ frames = 0
    /\ ticks = 0
    /\ elapsed = 0

\* "assets/images/blue_car.png" as decoded: its alpha is the asset's, taken opaque
CarPicture == Loaded(CarScale[1], CarScale[2], {})

\* ControlledCar((100, 100)), the car of __main__
PlayerCar ==
    NewControlledCar(Vec(100, 100), {"CAR"}, ImgFile(CarPicture),
                     ScaleTuple(CarScale[1], CarScale[2]))

\* Entity((3, -2), {CAR}, scale=(2, 4))
Crate == NewEntity(Vec(3, -2), {"CAR"}, ImgNone, ScaleTuple(2, 4))

----------------------------------------------------------------------------
(* The World: World(world_size), then add_tile, add_object and update      *)
(* calls, and Objects made with and without the world                      *)

WorldSizes == (1 .. 2) \X (0 .. 2)
Tiles == {1, 2}
Indices == -1 .. MaxIdx

InitWorld ==
    /\ \E ws \in WorldSizes : tile_array = NewTileArray(ws)
    /\ group_tiles = {}
    /\ group_objects = {}
    /\ image = NoImage
    /\ ents = ("car" :> PlayerCar)
    /\ vec_heap = NoHeap
    /\ cams = NoCams
    /\ LoopIdle
    /\ last = NoCall
    /\ steps = 0

\* world.add_tile(t, col, row)
DoAddTile(t, col, row) ==
    /\ steps < MaxCalls
    /\ LET r == AddTile(tile_array, group_tiles, t, col, row)
       IN /\ tile_array' = r.arr
          /\ group_tiles' = r.tiles
          /\ image' = IF r.err = None
                      THEN Redraw(r.arr, group_objects, ents) ELSE image
          /\ last' = Call("add_tile", <<t, col, row>>, r.err, None)
    /\ steps' = steps + 1
    /\ UNCHANGED <<group_objects, ents, camVars, loopVars>>

\* world.add_object(ents[id])
DoAddObject(id) ==
    /\ steps < MaxCalls
    /\ id \in DOMAIN ents
    /\ group_objects' = AddObject(group_objects, id)
    /\ last' = Call("add_object", <<id>>, None, None)
    /\ steps' = steps + 1
    /\ UNCHANGED <<tile_array, group_tiles, image, ents, camVars, loopVars>>

\* ents[id] = Object(pos, {CAR}, scale=scale), with world=world if registered
DoNewObject(id, pos, scale, registered) ==
    /\ steps < MaxCalls
    /\ id \notin DOMAIN ents
    /\ ents' = ents @@ (id :> NewObject(pos, {"CAR"}, ImgNone, scale))
    /\ group_objects' = IF registered THEN AddObject(group_objects, id) ELSE group_objects
    /\ last' = Call("new_object", <<id, registered>>, None, None)
    /\ steps' = steps + 1
    /\ UNCHANGED <<tile_array, group_tiles, image, camVars, loopVars>>

\* world.update(tk)
DoWorldUpdate(tk, keys) ==
    /\ steps < MaxCalls
    /\ ents' = UpdateObjects(ents, group_objects, tk, keys)
    /\ image' = Redraw(tile_array, group_objects, ents')
    /\ last' = Call("world_update", <<tk, keys>>, None, None)
    /\ steps' = steps + 1
    /\ UNCHANGED <<tile_array, group_tiles, group_objects, camVars, loopVars>>

NextWorld ==
    \/ \E t \in Tiles, col \in Indices, row \in Indices : DoAddTile(t, col, row)
    \/ DoAddObject("car")
    \/ \E registered \in BOOLEAN : DoNewObject("sign", Vec(7, 9), ScaleInt(2), registered)
    \/ \E tk \in BOOLEAN : DoWorldUpdate(tk, NoKeys)

SpecWorld == InitWorld /\ [][NextWorld]_vars

----------------------------------------------------------------------------
(* One Entity: its constructor, then accelerate, brake, turn, update calls *)

\* a picture with two clear pixels on its diagonal, and a wholly clear one
DiagPicture == Loaded(2, 2, {<<0, 0>>, <<1, 1>>})
ClearPicture == Loaded(1, 1, {<<0, 0>>})

EntityInits ==
    { NewEntity(Vec(0, 0), {"CAR"}, ImgNone, ScaleNone),
      NewEntity(<<Dec(7, 10), FZero(0)>>, {"CAR"}, ImgNone, ScaleInt(2)),
      NewEntity(Vec(3, -2), {"CAR"}, ImgFile(DiagPicture), ScaleTuple(2, 4)),
      NewControlledCar(Vec(0, 0), {"CAR"}, ImgNone, ScaleTuple(2, 1)),
      PlayerCar }

\* the largest |velocity| the accelerate calls drawn may leave
SpeedCap == FromInt(4)
AccelInputs == {CarAcceleration, FNeg(CarAcceleration), EPSILON, Dec(35, 10)}
BrakeInputs == {CarBraking}
TurnInputs == {90, -90, CarHandling, -CarHandling}
KeySets == { NoKeys,
             Keys(TRUE, FALSE, FALSE, FALSE), Keys(FALSE, TRUE, FALSE, FALSE),
             Keys(FALSE, FALSE, TRUE, FALSE), Keys(FALSE, FALSE, FALSE, TRUE) }

InitEntity ==
    /\ tile_array = NewTileArray(<<1, 1>>)
    /\ group_tiles = {}
    /\ group_objects = {}
    /\ image = NoImage
    /\ \E e \in EntityInits : ents = ("a" :> e)
    /\ vec_heap = NoHeap
    /\ cams = NoCams
    /\ LoopIdle
    /\ last = NoCall
    /\ steps = 0

EntityStep(id, e, call) ==
    /\ steps < MaxSteps
    /\ ents' = [ents EXCEPT ![id] = e]
    /\ last' = call
    /\ steps' = steps + 1
    /\ UNCHANGED <<worldVars, camVars, loopVars>>

DoAccelerate(id, m) ==
    /\ steps < MaxSteps
    /\ FLe(Magnitude(Accelerate(ents[id], m).velocity), SpeedCap)
    /\ EntityStep(id, Accelerate(ents[id], m), Call("accelerate", <<id, m>>, None, None))

DoBrake(id, m) ==
    EntityStep(id, Brake(ents[id], m), Call("brake", <<id, m>>, None, None))

DoTurn(id, g) ==
    EntityStep(id, Turn(ents[id], g), Call("turn", <<id, g>>, None, None))

DoUpdate(id, tk, keys) ==
    /\ (ents[id].kind = "Entity" \/ ~tk) => keys = NoKeys
    /\ EntityStep(id, Update(ents[id], tk, keys),
                  Call("update", <<id, tk, keys>>, None, None))

NextEntity ==
    \/ \E m \in AccelInputs : DoAccelerate("a", m)
    \/ \E m \in BrakeInputs : DoBrake("a", m)
    \/ \E g \in TurnInputs : DoTurn("a", g)
    \/ \E tk \in BOOLEAN, keys \in KeySets : DoUpdate("a", tk, keys)

SpecEntity == InitEntity /\ [][NextEntity]_vars

----------------------------------------------------------------------------
(* Two entities and collide_entity *)

LayerSets == {{}, {"CAR"}, {"npc"}, {"CAR", "npc"}}
Shapes == { <<ImgNone, ScaleNone>>,
            <<ImgNone, ScaleTuple(2, 1)>>,
            <<ImgFile(DiagPicture), ScaleNone>>,
            <<ImgFile(ClearPicture), ScaleNone>> }
Positions == {Vec(0, 0), Vec(1, 0), Vec(5, 5)}

InitCollide ==
    /\ tile_array = NewTileArray(<<1, 1>>)
    /\ group_tiles = {}
    /\ group_objects = {}
    /\ image = NoImage
    /\ \E la \in LayerSets, lb \in LayerSets, sa \in Shapes, sb \in Shapes,
          pb \in Positions :
          ents = ("a" :> NewEntity(Vec(0, 0), la, sa[1], sa[2]))
                 @@ ("b" :> NewEntity(pb, lb, sb[1], sb[2]))
    /\ vec_heap = NoHeap
    /\ cams = NoCams
    /\ LoopIdle
    /\ last = NoCall
    /\ steps = 0

\* ents[x].collide_entity(ents[y])
DoCollide(x, y) ==
    /\ steps < MaxSteps
    /\ last' = Call("collide_entity", <<x, y>>, None, CollideEntity(ents[x], ents[y]))
    /\ steps' = steps + 1
    /\ UNCHANGED <<ents, worldVars, camVars, loopVars>>

NextCollide ==
    \/ DoCollide("a", "b")
    \/ DoCollide("b", "a")

SpecCollide == InitCollide /\ [][NextCollide]_vars

----------------------------------------------------------------------------
(* The program: the world, car and camera of __main__, then the game loop *)

\* World((5, 5)) and the five add_tile calls; the tiles are numbered 1 .. 5
MainTiles ==
    LET w0 == [arr |-> NewTileArray(<<5, 5>>), tiles |-> {}]
        w1 == AddTile(w0.arr, w0.tiles, 1, 0, 0)
        w2 == AddTile(w1.arr, w1.tiles, 2, 0, 1)
        w3 == AddTile(w2.arr, w2.tiles, 3, 1, 0)
        w4 == AddTile(w3.arr, w3.tiles, 4, 1, 1)
    IN AddTile(w4.arr, w4.tiles, 5, 2, 0)

FrameTimes == {16, 17, 33}
\* the keys held during a frame: none, up, right
LoopKeySets == { NoKeys, Keys(TRUE, FALSE, FALSE, FALSE), Keys(FALSE, FALSE, TRUE, FALSE) }
Events == {"none", "resize", "quit"}
ResizedTo == <<800, 600>>

InitLoop ==
    /\ tile_array = MainTiles.arr
    /\ group_tiles = MainTiles.tiles
    /\ group_objects = AddObject({}, "player_car")
    /\ ents = ("player_car" :> PlayerCar)
    /\ image = Redraw(MainTiles.arr, {}, NoEnts)
    /\ vec_heap = NoHeap @@ ("main_pos" :> Vec(100, 100))
    /\ cams = ("camera" :> NewCamera(<<700, 500>>, "main_pos", "player_car",
                                     DefaultSmoothing))
    /\ LoopIdle
    /\ last = NoCall
    /\ steps = 0

\* one pass of "while True"
Frame(dt, keys, ev) ==
    /\ running
    /\ frames < MaxFrames
    /\ tst' = tst + dt
    /\ tick' = (tst' * TPS >= 1000)
    /\ frames' = frames + 1
    /\ elapsed' = elapsed + dt
    /\ last' = Call("frame", <<dt, keys, ev>>, None, None)
    /\ IF ev = "quit"
       THEN /\ running' = FALSE
            /\ ticks' = ticks
            /\ UNCHANGED <<worldVars, ents, camVars>>
       ELSE /\ running' = TRUE
            /\ ticks' = IF tick' THEN ticks + 1 ELSE ticks
            /\ ents' = UpdateObjects(ents, group_objects, tick', keys)
            /\ image' = Redraw(tile_array, group_objects, ents')
            /\ LET cs == IF ev = "resize"
                         THEN [cams EXCEPT !["camera"].size = ResizedTo] ELSE cams
               IN /\ vec_heap' = CameraUpdate(vec_heap, cs["camera"], ents')
                  /\ cams' = [cs EXCEPT !["camera"] = GetFrame(vec_heap', @)]
            /\ UNCHANGED <<tile_array, group_tiles, group_objects>>
    /\ UNCHANGED steps

NextLoop == \E dt \in FrameTimes, keys \in LoopKeySets, ev \in Events : Frame(dt, keys, ev)

SpecLoop == InitLoop /\ [][NextLoop]_vars

----------------------------------------------------------------------------
(* One Camera following an entity that stays where it is *)

\* 1e-17, the float the literal denotes
TinySmoothing == D(0, <<5271, 6427, 12116, 1475>>, -109)

\* 0.9999999999999999, the largest float below 1
LastBelowOne == D(0, <<16383, 16383, 16383, 2047>>, -53)

\* Camera.__init__'s smoothing argument: 0.1 (the default), 0.5, 0.9, and
\* values near the ends of (0, 1): 1e-17, 0.000001, 0.999999 and the
\* largest float below 1
Smoothings ==
    { DefaultSmoothing, Dec(5, 10), Dec(9, 10),
      TinySmoothing, Dec(1, 1000000), Dec(999999, 1000000), LastBelowOne }

\* the entities followed: the car of __main__, entities left and right of,
\* above and below the cameras' first positions, and one far out
FocusInits ==
    { PlayerCar,
      NewEntity(Vec(0, 400), {"CAR"}, ImgNone, ScaleTuple(2, 4)),
      NewEntity(Vec(600, 0), {"CAR"}, ImgNone, ScaleNone),
      NewEntity(Vec(3000000, -7), {"CAR"}, ImgNone, ScaleNone) }

\* the pos argument of Camera.__init__ when one is given: that of __main__,
\* one far out on the other side, one 0.000000005 left of the centre of
\* the car of __main__, and (-9007199254740994.0, 114), so far left that
\* neighbouring floats are 2 apart and the distance to the focus is not a float
PosInits ==
    { Vec(100, 100),
      Vec(-2000000, 1000000),
      <<FSub(FromInt(125), Dec(5, 1000000000)), FromInt(114)>>,
      <<D(1, <<1, 0, 0, 1024>>, 1), FromInt(114)>> }

InitEasing ==
    /\ tile_array = NewTileArray(<<1, 1>>)
    /\ group_tiles = {}
    /\ \E e \in FocusInits : ents = ("focus" :> e)
    /\ group_objects = {"focus"}
    /\ image = NoImage
    /\ \E v \in PosInits : vec_heap = NoHeap @@ ("main_pos" :> v)
    /\ \E p \in {"default", "main_pos"}, s \in Smoothings :
          cams = ("camera" :> NewCamera(<<700, 500>>, p, "focus", s))
    /\ LoopIdle
    /\ last = NoCall
    /\ steps = 0

\* cams[c].update(), at most bound calls a run
DoCameraUpdate(c, bound) ==
    /\ steps < bound
    /\ vec_heap' = CameraUpdate(vec_heap, cams[c], ents)
    /\ last' = Call("camera_update", <<c>>, None, None)
    /\ steps' = steps + 1
    /\ UNCHANGED <<cams, ents, worldVars, loopVars>>

NextEasing == DoCameraUpdate("camera", MaxUpdates)

SpecEasing == InitEasing /\ [][NextEasing]_vars

----------------------------------------------------------------------------
(* A scene: a World with registered entities and two Cameras on it *)

\* the entity registered beside the car: at rest, moving along its heading
\* (faster and slower than one tick of its friction), and turned a quarter
CrateInits ==
    { Crate,
      Accelerate(Crate, CarAcceleration),
      Accelerate(Crate, Dec(3, 1000)),
      Turn(Accelerate(Crate, CarAcceleration), 90) }

\* what the caller leaves out or passes as Camera's pos and focus_object
PosArgs(own) == {"default", own}
FocusArgs == {None, "car"}

\* the value the caller's pg.Vector2 objects hold
CallerVec == Vec(100, 100)

InitScene ==
    /\ tile_array = NewTileArray(<<1, 1>>)
    /\ group_tiles = {}
    /\ \E crate \in CrateInits :
          ents = ("car" :> PlayerCar) @@ ("crate" :> crate)
                 @@ ("loose" :> Accelerate(Crate, CarAcceleration))
    /\ group_objects = {"car", "crate"}
    /\ image = NoImage
    /\ vec_heap = NoHeap @@ ("v1" :> CallerVec) @@ ("v2" :> CallerVec)
    /\ \E p1 \in PosArgs("v1"), p2 \in PosArgs("v2"), f1 \in FocusArgs, f2 \in FocusArgs :
          cams = ("cam1" :> NewCamera(<<700, 500>>, p1, f1, DefaultSmoothing))
                 @@ ("cam2" :> NewCamera(<<700, 500>>, p2, f2, DefaultSmoothing))
    /\ LoopIdle
    /\ last = NoCall
    /\ steps = 0

\* the caller's "cams[c].pos = pg.Vector2(v)": a Vector2 object of its own
DoAssignPos(c, own, v) ==
    /\ steps < MaxCalls
    /\ vec_heap' = (own :> v) @@ vec_heap
    /\ cams' = [cams EXCEPT ![c].pos = own]
    /\ last' = Call("assign_pos", <<c>>, None, None)
    /\ steps' = steps + 1
    /\ UNCHANGED <<ents, worldVars, loopVars>>

NextScene ==
    \/ \E tk \in BOOLEAN, keys \in KeySets :
          /\ ~tk => keys = NoKeys
          /\ DoWorldUpdate(tk, keys)
    \/ DoAddObject("loose")
    \/ \E c \in {"cam1", "cam2"} : DoCameraUpdate(c, MaxCalls)
    \/ DoAssignPos("cam1", "own1", DefaultPos)
    \/ DoAssignPos("cam2", "own2", DefaultPos)

SpecScene == InitScene /\ [][NextScene]_vars

----------------------------------------------------------------------------
(* Two entities that are pushed, turned and ticked between collide_entity  *)
(* calls                                                                   *)

\* the layer sets of the pair: equal, overlapping, disjoint, one empty
LayerPairs == { <<{"CAR"}, {"CAR"}>>, <<{"CAR"}, {"CAR", "npc"}>>,
                <<{"CAR"}, {"npc"}>>, <<{}, {"CAR"}>> }
ContactShapes == { <<ImgNone, ScaleTuple(2, 1)>>, <<ImgFile(DiagPicture), ScaleNone>> }
ContactPositions == {Vec(1, 0), Vec(0, 2)}
\* the magnitude of the accelerate calls: 3.5 pixels a tick
ContactPush == Dec(35, 10)
ContactTurns == {90, -90, CarHandling}

InitContact ==
    /\ tile_array = NewTileArray(<<1, 1>>)
    /\ group_tiles = {}
    /\ group_objects = {}
    /\ image = NoImage
    /\ \E ls \in LayerPairs, sa \in ContactShapes, sb \in ContactShapes,
          pb \in ContactPositions :
          ents = ("a" :> NewEntity(Vec(0, 0), ls[1], sa[1], sa[2]))
                 @@ ("b" :> NewEntity(pb, ls[2], sb[1], sb[2]))
    /\ vec_heap = NoHeap
    /\ cams = NoCams
    /\ LoopIdle
    /\ last = NoCall
    /\ steps = 0

NextContact ==
    \/ \E id \in {"a", "b"} : DoAccelerate(id, ContactPush)
    \/ \E id \in {"a", "b"}, g \in ContactTurns : DoTurn(id, g)
    \/ \E id \in {"a", "b"} : DoUpdate(id, TRUE, NoKeys)
    \/ DoCollide("a", "b")
    \/ DoCollide("b", "a")

SpecContact == InitContact /\ [][NextContact]_vars

Spec == SpecWorld

----------------------------------------------------------------------------
(* Claims about the tile grid (checked under SpecWorld) *)

AddTileCalled == last'.op = "add_tile"
ArgTile == last'.args[1]
ArgCol == last'.args[2]
ArgRow == last'.args[3]

\* the cells of a tile array, as <<column, row>> in the code's 0-based indices
Cells(arr) ==
    UNION {{<<c - 1, r - 1>> : r \in 1 .. Len(arr[c])} : c \in 1 .. Len(arr)}

TileAt(arr, cell) == arr[cell[1] + 1][cell[2] + 1]

Rectangular(arr) == \A c \in 1 .. Len(arr) : Len(arr[c]) = Len(arr[1])

\* C1: add_tile(tile, col, row) with non-negative indices beyond the current
\* bounds returns without error; afterwards tile_array[col][row] is the tile,
\* every tile placed before is where it was, and every cell the call created
\* (other than the target) is None.
C1_GridExtension ==
    [][(/\ AddTileCalled
        /\ ArgCol >= 0 /\ ArgRow >= 0
        /\ <<ArgCol, ArgRow>> \notin Cells(tile_array))
       => /\ last'.err = None
          /\ <<ArgCol, ArgRow>> \in Cells(tile_array')
          /\ TileAt(tile_array', <<ArgCol, ArgRow>>) = ArgTile
          /\ \A cell \in Cells(tile_array) :
                TileAt(tile_array, cell) # 0
                => /\ cell \in Cells(tile_array')
                   /\ TileAt(tile_array', cell) = TileAt(tile_array, cell)
          /\ \A cell \in Cells(tile_array') \ Cells(tile_array) :
                cell # <<ArgCol, ArgRow>> => TileAt(tile_array', cell) = 0]_vars

\* C2: the tile array is rectangular in every reachable state, and no call
\* makes the number of columns or the length of a column smaller.
C2_RectangularNeverShrinks ==
    [][/\ Rectangular(tile_array')
       /\ Len(tile_array') >= Len(tile_array)
       /\ \A c \in 1 .. Len(tile_array) : Len(tile_array'[c]) >= Len(tile_array[c])]_vars

\* C6: add_tile with col < 0 or row < 0 raises IndexError and leaves
\* tile_array, group_tiles and the composed surface as they were.
C6_NegativeIndexRaises ==
    [][(AddTileCalled /\ (ArgCol < 0 \/ ArgRow < 0))
       => /\ last'.err = "IndexError"
          /\ tile_array' = tile_array
          /\ group_tiles' = group_tiles
          /\ image' = image]_vars

\* a world with a tile placed and a surface composed, on which an add_tile
\* with a negative row (and a column in range) has just raised
C6_Witness ==
    /\ last.op = "add_tile"
    /\ last.args[3] < 0 /\ last.args[2] >= 0 /\ last.args[2] < Len(tile_array)
    /\ last.err = "IndexError"
    /\ group_tiles # {}
    /\ image.drawn
    /\ Len(tile_array[1]) > 0

----------------------------------------------------------------------------
(* Claims about the game loop (checked under SpecLoop) *)

\* C3: every tick-bearing frame consumes one tick interval (1000 / TPS ms) of
\* the accumulated time, so the number of tick-bearing frames never exceeds
\* the elapsed milliseconds divided by 1000 / TPS.
C3_TicksBoundedByElapsed == ticks * 1000 <= elapsed * TPS

----------------------------------------------------------------------------
(* Claims about one entity (checked under SpecEntity) *)

\* whether u and v point in opposite directions on some axis
Flipped(u, v) == FSgn(u[1]) * FSgn(v[1]) < 0 \/ FSgn(u[2]) * FSgn(v[2]) < 0

\* the step is a.update(tick=True) with no key pressed
TickedFreely == last'.op = "update" /\ last'.args[2] /\ last'.args[3] = NoKeys

\* C4: with friction > 0, a tick with no control call strictly decreases a
\* non-zero |velocity| (or makes the velocity exactly (0, 0)), never flips
\* its direction, and keeps a zero velocity at (0, 0).
C4_FrictionMonotone ==
    [][(TickedFreely /\ FGt(ents["a"].friction, FZero(0)))
       => IF VIsZero(ents["a"].velocity)
          THEN VIsZero(ents'["a"].velocity)
          ELSE /\ FLt(Magnitude(ents'["a"].velocity), Magnitude(ents["a"].velocity))
               /\ ~Flipped(ents["a"].velocity, ents'["a"].velocity)]_vars

\* C5: the centre of the entity's rect is true_pos rounded to integers, in
\* every state from the constructor on.
C5_PositionIsRoundedTruePos ==
    RectCenter(ents["a"].rect)
        = <<PyRound(ents["a"].true_pos[1]), PyRound(ents["a"].true_pos[2])>>

\* a ControlledCar heading along angle 0
CarAtAngle0(e) == e.kind = "ControlledCar" /\ e.angle = 0 /\ e.mass = 1
                    /\ e.friction = CarFriction

\* the step is a.accelerate(0.06) on a car at rest
AcceleratedFromRest ==
    /\ last'.op = "accelerate" /\ last'.args[2] = CarAcceleration
    /\ CarAtAngle0(ents["a"]) /\ ents["a"].velocity = VZero

\* the step is the tick with no key pressed that follows that accelerate
TickedAfterAccelerate ==
    /\ TickedFreely
    /\ last.op = "accelerate" /\ last.args[2] = CarAcceleration
    /\ CarAtAngle0(ents["a"]) /\ ents["a"].velocity = <<CarAcceleration, FZero(0)>>

\* 0.039999999999999994, the double below 0.04
FourHundredths == FSub(Dec(4, 100), D(0, <<1>>, 0 - 57))

\* C7 as stated: a ControlledCar at rest with angle 0 has velocity (0.06, 0)
\* after accelerate(0.06), and (0, 0) after one tick with no control input.
C7_Original ==
    [][/\ AcceleratedFromRest => ents'["a"].velocity = <<CarAcceleration, FZero(0)>>
       /\ TickedAfterAccelerate => VIsZero(ents'["a"].velocity)]_vars

\* C7 as amended: a ControlledCar at rest with angle 0 has velocity (0.06, 0)
\* after accelerate(0.06); one tick with no control input takes the friction
\* 0.02 off it and leaves (0.06 - 0.02, 0), which is (0.039999999999999994, 0)
\* and not (0, 0).
C7_OneTickLeavesFourHundredths ==
    [][/\ AcceleratedFromRest => ents'["a"].velocity = <<CarAcceleration, FZero(0)>>
       /\ TickedAfterAccelerate
          => /\ ents'["a"].velocity = <<FSub(CarAcceleration, CarFriction), FZero(0)>>
             /\ ents'["a"].velocity = <<FourHundredths, FZero(0)>>
             /\ ~VIsZero(ents'["a"].velocity)]_vars

\* the car right after accelerate(0.06) from rest and one free tick
C7_Witness ==
    /\ steps = 2
    /\ last.op = "update" /\ last.args[2] /\ last.args[3] = NoKeys
    /\ CarAtAngle0(ents["a"])
    /\ ents["a"].scale = ScaleTuple(CarScale[1], CarScale[2])
    /\ ents["a"].velocity = <<FourHundredths, FZero(0)>>

\* C8: turn(angle) on an entity whose |velocity| <= 0.00001 leaves its angle,
\* velocity, image, rect and mask as they were, whatever the angle.
C8_TurnWhileStationary ==
    [][(last'.op = "turn" /\ FLe(Magnitude(ents["a"].velocity), EPSILON))
       => /\ ents'["a"].angle = ents["a"].angle
          /\ ents'["a"].velocity = ents["a"].velocity
          /\ ents'["a"].image = ents["a"].image
          /\ ents'["a"].rect = ents["a"].rect
          /\ ents'["a"].mask = ents["a"].mask]_vars

\* an entity with a non-square image and a velocity of exactly 0.00001 along
\* its heading, on which a turn by the car's handling has just been called
C8_Witness ==
    /\ last.op = "turn" /\ last.args[2] = CarHandling
    /\ ents["a"].velocity = <<EPSILON, FZero(0)>>
    /\ ents["a"].image.w # ents["a"].image.h

----------------------------------------------------------------------------
(* Claims about collisions (checked under SpecCollide) *)

Collided == last'.op = "collide_entity"

Disjoint(e, other) == e.collision_layers \cap other.collision_layers = {}

\* whether the silhouettes overlap where the entities are, layers aside
Touching(e, other) ==
    Overlap(e.mask, other.mask,
            <<other.rect.left - e.rect.left, other.rect.top - e.rect.top>>)

HasSetBit(m) == \E p \in Pixels(m.w, m.h) : IsSet(m, p[1], p[2])

\* same rect position and size, same mask, a layer in common
Twins(e, other) ==
    /\ e.rect = other.rect
    /\ e.mask = other.mask
    /\ ~Disjoint(e, other)

\* C9: collide_entity between entities with disjoint collision_layers is
\* False in either direction, whatever the masks and positions, and the call
\* changes neither entity.
C9_DisjointLayersNeverCollide ==
    [][Collided
       => /\ ents' = ents
          /\ Disjoint(ents["a"], ents["b"]) => last'.ret = FALSE]_vars

\* a call between entities of disjoint layers whose silhouettes overlap
C9_Witness ==
    /\ last.op = "collide_entity"
    /\ Disjoint(ents["a"], ents["b"])
    /\ ents["a"].collision_layers # {} /\ ents["b"].collision_layers # {}
    /\ Touching(ents["a"], ents["b"])
    /\ last.ret = FALSE

\* C10 as stated: entities with identical rects and masks and a shared layer
\* always report a collision, whatever mask they were constructed with.
C10_Original ==
    (last.op = "collide_entity" /\ Twins(ents["a"], ents["b"])) => last.ret = TRUE

\* C10 as amended: entities with identical rects and masks and a shared layer
\* report a collision exactly when the mask has a set bit; with a mask of no
\* set bit (an entity built with no image and no scale has a 0 x 0 one) they
\* report none.
C10_TwinsCollideIffMaskSet ==
    (last.op = "collide_entity" /\ Twins(ents["a"], ents["b"]))
    => (last.ret = HasSetBit(ents["a"].mask))

\* a call between twins with a set bit, which reported a collision
C10_Witness ==
    /\ last.op = "collide_entity"
    /\ Twins(ents["a"], ents["b"])
    /\ HasSetBit(ents["a"].mask)
    /\ ents["a"].collision_layers # ents["b"].collision_layers
    /\ last.ret = TRUE

----------------------------------------------------------------------------
(* Claims about the camera's easing (checked under SpecEasing) *)

CameraUpdated == last'.op = "camera_update"

\* from the position of camera c to the centre of its focus entity's rect
Gap(heap, c) == VSub(FocusCenter(cams[c], ents), heap[cams[c].pos])

\* 0.000000001, a distance the cameras of the model get below before the
\* steps of the easing are lost in the rounding of the position
Resolution == Dec(1, 1000000000)

\* the number of updates the claim's bound is taken as
ConvergeWithin == MaxUpdates - 65

\* neither coordinate of the gap is larger than before, or has changed sign
NoFartherNoOvershoot(d, d2) ==
    \A i \in 1 .. 2 : /\ FLe(FAbs(d2[i]), FAbs(d[i]))
                      /\ IsZero(d2[i]) \/ FSgn(d2[i]) = FSgn(d[i])

\* both coordinates of the gap are below the resolution
WithinResolution(d) == FLt(FAbs(d[1]), Resolution) /\ FLt(FAbs(d[2]), Resolution)

\* C11 as stated: every update leaves the distance to a stationary focus no
\* larger, strictly smaller while it is not zero (the position has changed
\* on an axis at least), never passes beyond the focus on either axis, and
\* the distance falls below a fixed positive threshold within a bounded
\* number of updates.
C11_Original ==
    [][CameraUpdated
       => LET d == Gap(vec_heap, "camera")
              d2 == Gap(vec_heap', "camera")
              p == vec_heap[cams["camera"].pos]
              p2 == vec_heap'[cams["camera"].pos]
          IN /\ NoFartherNoOvershoot(d, d2)
             /\ ~VIsZero(d) => \E i \in 1 .. 2 : ~FEq(p2[i], p[i])
             /\ steps' >= ConvergeWithin => WithinResolution(d2)]_vars

\* the spacing of the floats at x: the distance from |x| to the next float
\* above it
Spacing(x) ==
    IF IsZero(x) THEN D(0, NatShl(<<1>>, MantBits - 1), MinExp - (MantBits - 1))
    ELSE D(0, NatShl(<<1>>, MantBits - 1), x.e - (MantBits - 1))

\* p2 lies from p towards f and not beyond it, and is not p
Nearer(p, p2, f) ==
    \/ FLt(p, p2) /\ FLe(p2, f)
    \/ FGt(p, p2) /\ FGe(p2, f)

\* the step "d * self.smoothing" of camera c on axis i
EaseStep(heap, c, i) == FMul(Gap(heap, c)[i], cams[c].smoothing)

\* C11 as amended: every update leaves the distance on each axis no larger
\* and never passes beyond the focus; on an axis where the update changes
\* the position the camera is strictly nearer to the focus afterwards, and it
\* does change the position wherever the step d * smoothing is at least the
\* spacing of the floats at the position.  (A smaller step may leave the
\* camera where it is, short of the focus.)
C11_EasesWhileStepsCount ==
    [][CameraUpdated
       => LET d == Gap(vec_heap, "camera")
              d2 == Gap(vec_heap', "camera")
              p == vec_heap[cams["camera"].pos]
              p2 == vec_heap'[cams["camera"].pos]
              f == FocusCenter(cams["camera"], ents)
          IN /\ NoFartherNoOvershoot(d, d2)
             /\ \A i \in 1 .. 2 :
                   /\ ~FEq(p2[i], p[i]) => Nearer(p[i], p2[i], f[i])
                   /\ FGe(FAbs(EaseStep(vec_heap, "camera", i)), Spacing(p[i]))
                         => ~FEq(p2[i], p[i])]_vars

\* the updates after which the camera of __main__ has stopped short
StalledBy == MaxUpdates - 5

\* the camera of __main__ (smoothing 0.1, from (100, 100), following the car)
\* after that many updates: it stays where it is, short of the focus on both
\* axes, the step on each below the spacing of the floats at the position
C11_Witness ==
    /\ last.op = "camera_update"
    /\ steps >= StalledBy
    /\ cams["camera"].smoothing = DefaultSmoothing
    /\ cams["camera"].pos = "main_pos"
    /\ ents["focus"] = PlayerCar
    /\ \A i \in 1 .. 2 :
          /\ ~IsZero(Gap(vec_heap, "camera")[i])
          /\ FLt(FAbs(Gap(vec_heap, "camera")[i]), Resolution)
          /\ FLt(FAbs(EaseStep(vec_heap, "camera", i)), Spacing(vec_heap["main_pos"][i]))
          /\ CameraUpdate(vec_heap, cams["camera"], ents)["main_pos"][i]
                = vec_heap["main_pos"][i]

----------------------------------------------------------------------------
(* Claims about World.update (checked under SpecScene) *)

WorldUpdated == last'.op = "world_update"

\* the control signals of ControlledCar.update, in the order it applies them
Controlled(e, keys) ==
    LET e1 == IF keys.up THEN Accelerate(e, CarAcceleration) ELSE e
        e2 == IF keys.down THEN Brake(e1, CarBraking) ELSE e1
        e3 == IF keys.right THEN Turn(e2, CarHandling) ELSE e2
    IN IF keys.left THEN Turn(e3, -CarHandling) ELSE e3

\* the integration step of one tick: the position moved by the velocity, the
\* rect centred on it, then the friction taken from the velocity
Integrated(e) ==
    LET tp == VAdd(e.true_pos, e.velocity)
        speed == Magnitude(e.velocity)
        fm == FMul(e.friction, FromInt(e.mass))
        f == FMax(fm, FDiv(FMul(fm, speed), FromInt(3)))
    IN [e EXCEPT
          !.true_pos = tp,
          !.rect = SetCenter(@, PyInt(tp[1]), PyInt(tp[2])),
          !.velocity = IF IsZero(speed) \/ FLe(e.friction, FZero(0)) THEN @
                       ELSE IF FLe(FSub(speed, f), FZero(0)) THEN VZero
                       ELSE VAdd(@, Rotate(<<FNeg(f), FZero(0)>>, e.angle))]

\* C12: World.update(tick=False) leaves true_pos, rect, velocity and angle of
\* every registered entity as they were; World.update(tick=True) applies one
\* integration step (position, then friction) to every registered entity, a
\* ControlledCar's control signals following it.
C12_PhysicsOnlyOnTicks ==
    [][WorldUpdated
       => \A id \in group_objects :
             IF last'.args[1]
             THEN ents'[id] = IF ents[id].kind = "ControlledCar"
                              THEN Controlled(Integrated(ents[id]), last'.args[2])
                              ELSE Integrated(ents[id])
             ELSE /\ ents'[id].true_pos = ents[id].true_pos
                  /\ ents'[id].rect = ents[id].rect
                  /\ ents'[id].velocity = ents[id].velocity
                  /\ ents'[id].angle = ents[id].angle]_vars

\* a world update on a tick after which the car and the crate, both
\* registered and both moving, are away from where they were made
C12_Witness ==
    /\ last.op = "world_update"
    /\ last.args[1] = TRUE
    /\ ents["car"].true_pos # PlayerCar.true_pos
    /\ ents["crate"].true_pos # Crate.true_pos
    /\ ~VIsZero(ents["car"].velocity)
    /\ ~VIsZero(ents["crate"].velocity)

----------------------------------------------------------------------------
(* Claims about the cameras' positions (checked under SpecScene) *)

\* the value of cams[c].pos
PosOf(heap, cs, c) == heap[cs[c].pos]

\* the step is the caller's assignment to cams[c].pos
Assigned(c) == last'.op = "assign_pos" /\ last'.args[1] = c

\* C13: the pos of a Camera with no focus entity is changed by no step (its own
\* update, a world update, the update of another camera) other than the
\* caller's assignment to it.
C13_FocuslessCameraStatic ==
    [][\A c \in DOMAIN cams :
          (cams[c].focus_object = None /\ ~Assigned(c))
          => PosOf(vec_heap', cams', c) = PosOf(vec_heap, cams, c)]_vars

\* the Vector2 objects the caller made and passed as pos
CallerVectors == {"v1", "v2"}

\* C17: the update of one Camera changes neither the pos of any other Camera
\* (cameras made with the default pos included) nor a Vector2 the caller
\* passed in as pos.
C17_PositionsNotShared ==
    [][CameraUpdated
       => /\ \A o \in DOMAIN cams \ {last'.args[1]} :
                PosOf(vec_heap', cams', o) = PosOf(vec_heap, cams, o)
          /\ \A v \in CallerVectors : vec_heap'[v] = vec_heap[v]]_vars

----------------------------------------------------------------------------
(* Claims about the order and the friction of a tick (checked under           *)
(* SpecEntity)                                                             *)

\* the step is ents["a"].update(tick=True); the keys read are last'.args[3]
TickedWith == last'.op = "update" /\ last'.args[2] = TRUE

\* C14: a friction step that does not snap the velocity to zero
\* (|velocity| - f > 0) takes exactly f from |velocity| and keeps its
\* direction, which is the result of brake(f), in every state reachable
\* through accelerate, brake, turn and ticks.
C14_FrictionIsBrake ==
    [][LET e == ents["a"]
           f == Friction(e)
       IN (/\ TickedWith
           /\ last'.args[3] = NoKeys
           /\ FGt(e.friction, FZero(0))
           /\ FGt(FSub(Magnitude(e.velocity), f), FZero(0)))
          => /\ ents'["a"].velocity = Brake(e, f).velocity
             /\ Magnitude(ents'["a"].velocity) = FSub(Magnitude(e.velocity), f)
             /\ \A i \in 1 .. 2 : FSgn(ents'["a"].velocity[i]) = FSgn(e.velocity[i])]_vars

\* C15: within one tick true_pos is advanced by the velocity held when the
\* tick starts, then the friction is applied to the velocity, and a
\* ControlledCar's control signals are applied only after both; so the keys
\* held on a tick leave that tick's true_pos as it would be without them and
\* reach true_pos through the velocity on the next tick.
C15_TickOrder ==
    [][TickedWith
       => LET e == ents["a"]
              keys == last'.args[3]
          IN /\ ents'["a"].true_pos = VAdd(e.true_pos, e.velocity)
             /\ ents'["a"].velocity =
                   IF e.kind = "ControlledCar"
                   THEN Controlled(Integrated(e), keys).velocity
                   ELSE Integrated(e).velocity]_vars

\* the default car after two ticks with the up key held, from rest: the first
\* tick's accelerate did not move it on that tick, the second tick moved it by
\* the 0.06 of the first and then applied friction before the new accelerate
C15_Witness ==
    /\ last.op = "update" /\ last.args[2] = TRUE
    /\ last.args[3] = Keys(TRUE, FALSE, FALSE, FALSE)
    /\ ents["a"].kind = "ControlledCar"
    /\ ents["a"].true_pos = VAdd(PlayerCar.true_pos, <<CarAcceleration, FZero(0)>>)
    /\ ents["a"].velocity =
          <<FAdd(FSub(CarAcceleration, CarFriction), CarAcceleration), FZero(0)>>

----------------------------------------------------------------------------
(* Claims about the composed surface (checked under SpecWorld) *)

\* the pixel rectangle (x, y, w, h) lies inside a surface of size sw x sh
Inside(x, y, w, h, sw, sh) ==
    /\ 0 <= x /\ x + w <= sw
    /\ 0 <= y /\ y + h <= sh

\* C16: after every redraw of a world of C columns and R rows the composed
\* surface is C * TILE_SIZE wide and R * TILE_SIZE high, so the rectangle
\* (col * TILE_SIZE, row * TILE_SIZE, TILE_SIZE, TILE_SIZE) each cell is
\* painted at lies inside the surface, whatever the shape of the grid.
C16_SurfaceCoversGrid ==
    image.drawn
    => /\ image.w = Len(image.cells) * TILE_SIZE
       /\ image.h = Len(image.cells[1]) * TILE_SIZE
       /\ \A cell \in Cells(image.cells) :
             Inside(cell[1] * TILE_SIZE, cell[2] * TILE_SIZE, TILE_SIZE, TILE_SIZE,
                    image.w, image.h)

----------------------------------------------------------------------------
(* Claims about the symmetry of collisions (checked under SpecContact) *)

\* C18: in every reachable state, whatever the positions, rotations and layer
\* sets of two entities, a.collide_entity(b) equals b.collide_entity(a).
C18_CollisionSymmetric ==
    CollideEntity(ents["a"], ents["b"]) = CollideEntity(ents["b"], ents["a"])

\* a collision reported between an entity turned a quarter and moved by a tick
\* and an entity of another size, another layer set and another rect position
C18_Witness ==
    /\ last.op = "collide_entity"
    /\ last.ret = TRUE
    /\ ents["a"].angle % 180 = 90
    /\ ~VIsZero(ents["a"].true_pos)
    /\ ents["a"].mask # ents["b"].mask
    /\ <<ents["a"].rect.w, ents["a"].rect.h>> # <<ents["b"].rect.w, ents["b"].rect.h>>
    /\ <<ents["a"].rect.left, ents["a"].rect.top>> # <<ents["b"].rect.left, ents["b"].rect.top>>
    /\ ents["a"].collision_layers # ents["b"].collision_layers

=============================================================================
